---------------------------- MODULE Spec2Model ----------------------------
(***************************************************************************)
(* Pomodoro daemon core: the timer state machine (types/mod.rs), the       *)
(* timer engine with its event channel and tick loop (daemon/timer.rs)     *)
(* and the request handler that reaches the engine through a mutex         *)
(* (daemon/ipc.rs).                                                        *)
(***************************************************************************)
EXTENDS Integers, Sequences, FiniteSets, TLC

(***************************************************************************)
(* Bounds of the model.                                                    *)
(***************************************************************************)
\* pomodoro_count is a u32; work sessions are not ticked once it reaches this
MaxPomodoros == 4
\* the newest events of the channel that the model keeps
MaxEvents == 3

(***************************************************************************)
(* Option<T>: None is the empty sequence, Some(v) a one-element sequence.  *)
(***************************************************************************)
None == <<>>
Some(v) == <<v>>
is_some(o) == o # None
unwrap(o) == o[1]

(***************************************************************************)
(* TimerPhase                                                              *)
(***************************************************************************)
Stopped == "stopped"
Working == "working"
Breaking == "breaking"
LongBreaking == "long_breaking"
Paused == "paused"
TimerPhase == {Stopped, Working, Breaking, LongBreaking, Paused}

is_active(p) == p \in {Working, Breaking, LongBreaking}

(***************************************************************************)
(* PomodoroConfig                                                          *)
(***************************************************************************)
SecondsPerMinute == 60

\* the configurations the engine is constructed with (tests/e2e_tests.rs:
\* create_fast_config and create_auto_cycle_config)
Configs ==
  { [work_minutes |-> 1, break_minutes |-> 1, long_break_minutes |-> 2,
     auto_cycle |-> ac, focus_mode |-> FALSE] : ac \in BOOLEAN }

ErrWorkRange == "work_minutes must be 1-120"
ErrBreakRange == "break_minutes must be 1-60"
ErrLongBreakRange == "long_break_minutes must be 1-60"

\* validation that looks at the break before the work time
validate_break_first(c) ==
  IF c.break_minutes < 1 \/ c.break_minutes > 60 THEN ErrBreakRange
  ELSE IF c.work_minutes < 1 \/ c.work_minutes > 120 THEN ErrWorkRange
  ELSE IF c.long_break_minutes < 1 \/ c.long_break_minutes > 60
       THEN ErrLongBreakRange
  ELSE "Ok"

\* validation that lets any break length through
validate_any_break(c) ==
  IF c.work_minutes < 1 \/ c.work_minutes > 120 THEN ErrWorkRange
  ELSE "Ok"

validate(c) ==
  IF c.work_minutes < 1 \/ c.work_minutes > 120 THEN ErrWorkRange
  ELSE IF c.break_minutes < 1 \/ c.break_minutes > 60 THEN ErrBreakRange
  ELSE IF c.long_break_minutes < 1 \/ c.long_break_minutes > 60
       THEN ErrLongBreakRange
  ELSE "Ok"

(***************************************************************************)
(* TimerState: a record with the fields of the struct.                     *)
(***************************************************************************)
TimerState_new(c) ==
  [phase |-> Stopped, remaining_seconds |-> 0, pomodoro_count |-> 0,
   task_name |-> None, config |-> c, previous_phase |-> None]

\* start_working that forgets to clear previous_phase
start_working_keeps_previous(s, task) ==
  [s EXCEPT !.phase = Working,
            !.remaining_seconds = s.config.work_minutes * SecondsPerMinute,
            !.task_name = task]

start_working(s, task) ==
  [s EXCEPT !.phase = Working,
            !.remaining_seconds = s.config.work_minutes * SecondsPerMinute,
            !.task_name = task,
            !.previous_phase = None]

\* start_breaking that takes the long break one session early
start_breaking_early(s) ==
  IF (s.pomodoro_count + 1) % 4 = 0
  THEN [s EXCEPT !.phase = LongBreaking,
                 !.remaining_seconds =
                     s.config.long_break_minutes * SecondsPerMinute,
                 !.previous_phase = None]
  ELSE [s EXCEPT !.phase = Breaking,
                 !.remaining_seconds =
                     s.config.break_minutes * SecondsPerMinute,
                 !.previous_phase = None]

start_breaking(s) ==
  IF s.pomodoro_count > 0 /\ s.pomodoro_count % 4 = 0
  THEN [s EXCEPT !.phase = LongBreaking,
                 !.remaining_seconds =
                     s.config.long_break_minutes * SecondsPerMinute,
                 !.previous_phase = None]
  ELSE [s EXCEPT !.phase = Breaking,
                 !.remaining_seconds =
                     s.config.break_minutes * SecondsPerMinute,
                 !.previous_phase = None]

\* pause that does not remember the phase it interrupts
state_pause_forgets(s) ==
  IF is_active(s.phase)
  THEN [s EXCEPT !.phase = Paused]
  ELSE s

state_pause(s) ==
  IF is_active(s.phase)
  THEN [s EXCEPT !.previous_phase = Some(s.phase), !.phase = Paused]
  ELSE s

\* resume that always goes back to Working
state_resume_default(s) ==
  IF s.phase = Paused
  THEN [s EXCEPT !.phase = Working, !.previous_phase = None]
  ELSE s

state_resume(s) ==
  IF s.phase = Paused
  THEN IF is_some(s.previous_phase)
       THEN [s EXCEPT !.phase = unwrap(s.previous_phase),
                      !.previous_phase = None]
       ELSE [s EXCEPT !.phase = Working]
  ELSE s

\* stop that also resets the session counter
state_stop_resets_count(s) ==
  [s EXCEPT !.phase = Stopped, !.remaining_seconds = 0,
            !.task_name = None, !.previous_phase = None,
            !.pomodoro_count = 0]

\* stop that keeps the task of the stopped session
state_stop_keeps_task(s) ==
  [s EXCEPT !.phase = Stopped, !.remaining_seconds = 0,
            !.previous_phase = None]

\* stop that leaves the seconds of the stopped session
state_stop_keeps_seconds(s) ==
  [s EXCEPT !.phase = Stopped, !.task_name = None, !.previous_phase = None]

state_stop(s) ==
  [s EXCEPT !.phase = Stopped, !.remaining_seconds = 0,
            !.task_name = None, !.previous_phase = None]

\* tick that reports completion only for the call that reaches 0
state_tick_edge(s) ==
  LET r == IF s.remaining_seconds > 0 THEN s.remaining_seconds - 1
           ELSE s.remaining_seconds
  IN [state |-> [s EXCEPT !.remaining_seconds = r],
      completed |-> s.remaining_seconds = 1]

\* tick returns the new state and the flag "reached 0"
state_tick(s) ==
  LET r == IF s.remaining_seconds > 0 THEN s.remaining_seconds - 1
           ELSE s.remaining_seconds
  IN [state |-> [s EXCEPT !.remaining_seconds = r], completed |-> r = 0]

is_running(s) == is_active(s.phase)

is_paused(s) == s.phase = Paused

increment_pomodoro_count(s) ==
  [s EXCEPT !.pomodoro_count = s.pomodoro_count + 1]

(***************************************************************************)
(* TimerEvent                                                              *)
(***************************************************************************)
WorkStarted(task) == [type |-> "WorkStarted", task_name |-> task]
WorkCompleted(n, task) ==
  [type |-> "WorkCompleted", pomodoro_count |-> n, task_name |-> task]
BreakStarted(long) == [type |-> "BreakStarted", is_long_break |-> long]
BreakCompleted(long) == [type |-> "BreakCompleted", is_long_break |-> long]
EvPaused == [type |-> "Paused"]
EvResumed == [type |-> "Resumed"]
EvStopped == [type |-> "Stopped"]
Tick(r) == [type |-> "Tick", remaining_seconds |-> r]


(***************************************************************************)
(* The event channel (mpsc::unbounded_channel).  events holds the events   *)
(* sent so far in send order; the receiver has taken all but the newest    *)
(* MaxEvents of them.  A send fails iff the receiver has been dropped.     *)
(***************************************************************************)
Push(ch, e) ==
  LET all == Append(ch, e)
  IN IF Len(all) > MaxEvents THEN Tail(all) ELSE all

(***************************************************************************)
(* TimerEngine.  Every operation gets the timer state, the channel and     *)
(* whether the receiver is alive, and yields the state and channel after   *)
(* it together with its Result: "Ok" or the text of the error.             *)
(***************************************************************************)
ErrAlreadyRunning == "timer is already running"
ErrNotRunning == "timer is not running"
ErrNotPaused == "timer is not paused"

Outcome(s, ch, r) == [state |-> s, events |-> ch, res |-> r]

\* start that also refuses a paused timer
start_rejects_paused(s, ch, open, task) ==
  IF is_running(s) \/ is_paused(s) THEN Outcome(s, ch, ErrAlreadyRunning)
  ELSE LET s1 == start_working(s, task)
       IN IF open THEN Outcome(s1, Push(ch, WorkStarted(task)), "Ok")
          ELSE Outcome(s1, ch, "Failed to send work started event")

\* start that resets the session before it checks the phase
start_mutates_first(s, ch, open, task) ==
  LET s1 == start_working(s, task)
  IN IF is_running(s) THEN Outcome(s1, ch, ErrAlreadyRunning)
     ELSE IF open THEN Outcome(s1, Push(ch, WorkStarted(task)), "Ok")
     ELSE Outcome(s1, ch, "Failed to send work started event")

start(s, ch, open, task) ==
  IF is_running(s) THEN Outcome(s, ch, ErrAlreadyRunning)
  ELSE LET s1 == start_working(s, task)
       IN IF open THEN Outcome(s1, Push(ch, WorkStarted(task)), "Ok")
          ELSE Outcome(s1, ch, "Failed to send work started event")

\* pause that reports success without announcing it
pause_silent(s, ch, open) ==
  IF ~is_running(s) THEN Outcome(s, ch, ErrNotRunning)
  ELSE Outcome(state_pause(s), ch, "Ok")

pause(s, ch, open) ==
  IF ~is_running(s) THEN Outcome(s, ch, ErrNotRunning)
  ELSE LET s1 == state_pause(s)
       IN IF open THEN Outcome(s1, Push(ch, EvPaused), "Ok")
          ELSE Outcome(s1, ch, "Failed to send paused event")

\* resume that is accepted in every phase
resume_unguarded(s, ch, open) ==
  LET s1 == state_resume(s)
  IN IF open THEN Outcome(s1, Push(ch, EvResumed), "Ok")
     ELSE Outcome(s1, ch, "Failed to send resumed event")

resume(s, ch, open) ==
  IF ~is_paused(s) THEN Outcome(s, ch, ErrNotPaused)
  ELSE LET s1 == state_resume(s)
       IN IF open THEN Outcome(s1, Push(ch, EvResumed), "Ok")
          ELSE Outcome(s1, ch, "Failed to send resumed event")

stop(s, ch, open) ==
  IF ~is_running(s) /\ ~is_paused(s) THEN Outcome(s, ch, ErrNotRunning)
  ELSE LET s1 == state_stop(s)
       IN IF open THEN Outcome(s1, Push(ch, EvStopped), "Ok")
          ELSE Outcome(s1, ch, "Failed to send stopped event")

\* handle_timer_complete that announces the break before the completion
handle_timer_complete_swapped(s, ch, open) ==
  IF s.phase = Working THEN
    LET s1 == increment_pomodoro_count(s)
        s2 == start_breaking(s1)
        ch1 == Push(ch, BreakStarted(s2.phase = LongBreaking))
    IN IF ~open
       THEN Outcome(s1, ch, "Failed to send work completed event")
       ELSE Outcome(s2,
                    Push(ch1, WorkCompleted(s1.pomodoro_count, s1.task_name)),
                    "Ok")
  ELSE IF s.phase \in {Breaking, LongBreaking} THEN
    LET ch1 == Push(ch, BreakCompleted(s.phase = LongBreaking))
    IN IF ~open
       THEN Outcome(s, ch, "Failed to send break completed event")
       ELSE IF s.config.auto_cycle
            THEN LET s1 == start_working(s, s.task_name)
                 IN Outcome(s1, Push(ch1, WorkStarted(s1.task_name)), "Ok")
            ELSE Outcome(state_stop(s), ch1, "Ok")
  ELSE Outcome(s, ch, "Ok")

\* handle_timer_complete that ends a break through the stop command
handle_timer_complete_stop_event(s, ch, open) ==
  IF s.phase = Working THEN
    LET s1 == increment_pomodoro_count(s)
        s2 == start_breaking(s1)
        ch1 == Push(ch, WorkCompleted(s1.pomodoro_count, s1.task_name))
    IN IF ~open
       THEN Outcome(s1, ch, "Failed to send work completed event")
       ELSE Outcome(s2, Push(ch1, BreakStarted(s2.phase = LongBreaking)),
                    "Ok")
  ELSE IF s.phase \in {Breaking, LongBreaking} THEN
    LET ch1 == Push(ch, BreakCompleted(s.phase = LongBreaking))
    IN IF ~open
       THEN Outcome(s, ch, "Failed to send break completed event")
       ELSE IF s.config.auto_cycle
            THEN LET s1 == start_working(s, s.task_name)
                 IN Outcome(s1, Push(ch1, WorkStarted(s1.task_name)), "Ok")
            ELSE Outcome(state_stop(s), Push(ch1, EvStopped), "Ok")
  ELSE Outcome(s, ch, "Ok")

\* a completion that begins the next session whatever auto_cycle says
handle_timer_complete_cycles(s, ch, open) ==
  IF s.phase = Working THEN
    LET s1 == increment_pomodoro_count(s)
        s2 == start_breaking(s1)
        ch1 == Push(ch, WorkCompleted(s1.pomodoro_count, s1.task_name))
    IN IF ~open
       THEN Outcome(s1, ch, "Failed to send work completed event")
       ELSE Outcome(s2, Push(ch1, BreakStarted(s2.phase = LongBreaking)),
                    "Ok")
  ELSE IF s.phase \in {Breaking, LongBreaking} THEN
    LET ch1 == Push(ch, BreakCompleted(s.phase = LongBreaking))
    IN IF ~open
       THEN Outcome(s, ch, "Failed to send break completed event")
       ELSE LET s1 == start_working(s, s.task_name)
            IN Outcome(s1, Push(ch1, WorkStarted(s1.task_name)), "Ok")
  ELSE Outcome(s, ch, "Ok")

\* a completion that reports every break as a long one
handle_timer_complete_long(s, ch, open) ==
  IF s.phase = Working THEN
    LET s1 == increment_pomodoro_count(s)
        s2 == start_breaking(s1)
        ch1 == Push(ch, WorkCompleted(s1.pomodoro_count, s1.task_name))
    IN IF ~open
       THEN Outcome(s1, ch, "Failed to send work completed event")
       ELSE Outcome(s2, Push(ch1, BreakStarted(s2.phase = LongBreaking)),
                    "Ok")
  ELSE IF s.phase \in {Breaking, LongBreaking} THEN
    LET ch1 == Push(ch, BreakCompleted(TRUE))
    IN IF ~open
       THEN Outcome(s, ch, "Failed to send break completed event")
       ELSE IF s.config.auto_cycle
            THEN LET s1 == start_working(s, s.task_name)
                 IN Outcome(s1, Push(ch1, WorkStarted(s1.task_name)), "Ok")
            ELSE Outcome(state_stop(s), ch1, "Ok")
  ELSE Outcome(s, ch, "Ok")

handle_timer_complete(s, ch, open) ==
  IF s.phase = Working THEN
    LET s1 == increment_pomodoro_count(s)
        s2 == start_breaking(s1)
        ch1 == Push(ch, WorkCompleted(s1.pomodoro_count, s1.task_name))
    IN IF ~open
       THEN Outcome(s1, ch, "Failed to send work completed event")
       ELSE Outcome(s2, Push(ch1, BreakStarted(s2.phase = LongBreaking)),
                    "Ok")
  ELSE IF s.phase \in {Breaking, LongBreaking} THEN
    LET ch1 == Push(ch, BreakCompleted(s.phase = LongBreaking))
    IN IF ~open
       THEN Outcome(s, ch, "Failed to send break completed event")
       ELSE IF s.config.auto_cycle
            THEN LET s1 == start_working(s, s.task_name)
                 IN Outcome(s1, Push(ch1, WorkStarted(s1.task_name)), "Ok")
            ELSE Outcome(state_stop(s), ch1, "Ok")
  ELSE Outcome(s, ch, "Ok")

(***************************************************************************)
(* IPC types                                                               *)
(***************************************************************************)
NoParams ==
  [work_minutes |-> None, break_minutes |-> None,
   long_break_minutes |-> None, task_name |-> None,
   auto_cycle |-> None, focus_mode |-> None]

\* the Start requests that clients send
StartParamsSet ==
  { NoParams,
    [NoParams EXCEPT !.task_name = Some("A"), !.work_minutes = Some(2),
                     !.auto_cycle = Some(TRUE)],
    [NoParams EXCEPT !.work_minutes = Some(0), !.task_name = Some("A")],
    [NoParams EXCEPT !.break_minutes = Some(61)],
    [NoParams EXCEPT !.long_break_minutes = Some(0)] }

IpcRequest ==
  { [command |-> "start", params |-> p] : p \in StartParamsSet }
  \cup { [command |-> c] : c \in {"pause", "resume", "stop", "status"} }

\* response data without the task
from_timer_state_no_task(s) ==
  [state |-> Some(s.phase), remaining_seconds |-> Some(s.remaining_seconds),
   pomodoro_count |-> Some(s.pomodoro_count), task_name |-> None]

from_timer_state(s) ==
  [state |-> Some(s.phase), remaining_seconds |-> Some(s.remaining_seconds),
   pomodoro_count |-> Some(s.pomodoro_count), task_name |-> s.task_name]

success(message, data) ==
  [status |-> "success", message |-> message, data |-> data]

error(message) == [status |-> "error", message |-> message, data |-> None]

\* the success message of each handler
SuccessMessage(command) ==
  CASE command = "start" -> "timer started"
    [] command = "pause" -> "timer paused"
    [] command = "resume" -> "timer resumed"
    [] command = "stop" -> "timer stopped"
    [] command = "status" -> ""

\* handle_start: the overrides are merged into a copy of the config
merged_config(c, p) ==
  [work_minutes |-> IF is_some(p.work_minutes) THEN unwrap(p.work_minutes)
                    ELSE c.work_minutes,
   break_minutes |-> IF is_some(p.break_minutes) THEN unwrap(p.break_minutes)
                     ELSE c.break_minutes,
   long_break_minutes |-> IF is_some(p.long_break_minutes)
                          THEN unwrap(p.long_break_minutes)
                          ELSE c.long_break_minutes,
   auto_cycle |-> IF is_some(p.auto_cycle) THEN unwrap(p.auto_cycle)
                  ELSE c.auto_cycle,
   focus_mode |-> IF is_some(p.focus_mode) THEN unwrap(p.focus_mode)
                  ELSE c.focus_mode]

has_overrides(p) ==
  \/ is_some(p.work_minutes) \/ is_some(p.break_minutes)
  \/ is_some(p.long_break_minutes) \/ is_some(p.auto_cycle)
  \/ is_some(p.focus_mode)

(***************************************************************************)
(* State of the daemon.                                                    *)
(***************************************************************************)
VARIABLES
  state,     \* TimerEngine.state
  events,    \* the events sent on TimerEngine.event_tx
  rx_open,   \* the receiver of the event channel has not been dropped
  lock,      \* holder of the Mutex around the engine: free, run or handler
  runPc,     \* the task that executes TimerEngine::run
  hPc,       \* the request-serving task
  req,       \* the request of the connection being served
  result,    \* the Result of the handler's engine call
  resp,      \* the response of the connection being served
  paused_from  \* history: the timer state at the last successful pause,
               \* kept while the timer stays paused

(***************************************************************************)
(* State of one client call, IpcClient::send_request_with_retry.           *)
(***************************************************************************)
VARIABLES
  cPc,         \* the call: idle, attempt, sleep or returned
  creq,        \* the request of the call
  attempt,     \* the loop variable of the retry loop
  last_error,  \* the error of the latest failed attempt
  cresult,     \* the Result the call returned
  tries,       \* history: what happened to each attempt made, in order
  slept        \* history: milliseconds slept between the attempts

cvars == <<cPc, creq, attempt, last_error, cresult, tries, slept>>

(***************************************************************************)
(* A call of one of the pure functions of the types module.                *)
(***************************************************************************)
VARIABLES
  call,        \* the function called and its argument
  ret          \* what the call returned

pvars == <<call, ret>>

(***************************************************************************)
(* The file system under the socket paths and the IpcServer values.        *)
(***************************************************************************)
MaxServers == 2

Servers == 1..MaxServers

Paths == {"p1", "p2"}

\* what can be at a path: nothing, a plain file, the socket a server bound
Absent == [kind |-> "absent", owner |-> 0]
PlainFile == [kind |-> "file", owner |-> 0]
SocketOf(i) == [kind |-> "socket", owner |-> i]

VARIABLES
  srv,         \* IpcServer values: socket_path of each live one
  fs,          \* what is at each socket path: nothing, a file, a socket
  dir          \* whether the parent directory of each socket path exists

fvars == <<srv, fs, dir>>

(***************************************************************************)
(* The connections to the listener of the serving IpcServer.               *)
(***************************************************************************)
VARIABLES
  backlog,     \* connections made and not yet accepted, oldest first
  nconn,       \* number of connections made so far
  conn,        \* the accepted connection whose cycle is under way
  written      \* history: the connections a response was written to

nvars == <<backlog, nconn, conn, written>>

dvars ==
  <<state, events, rx_open, lock, runPc, hPc, req, result, resp, paused_from>>

vars ==
  <<state, events, rx_open, lock, runPc, hPc, req, result, resp, paused_from,
    cvars, pvars, fvars, nvars>>

Init ==
  /\ state \in {TimerState_new(c) : c \in Configs}
  /\ events = <<>>
  /\ rx_open = TRUE
  /\ lock = "free"
  /\ runPc = "none"
  /\ hPc = "idle"
  /\ req = None
  /\ result = None
  /\ resp = None
  /\ paused_from = None
  /\ cPc = "idle"
  /\ creq = None
  /\ attempt = 0
  /\ last_error = None
  /\ cresult = None
  /\ tries = <<>>
  /\ slept = 0
  /\ call = None
  /\ ret = None
  /\ srv = [i \in Servers |-> None]
  /\ fs = [p \in Paths |-> Absent]
  /\ dir = [p \in Paths |-> FALSE]
  /\ backlog = <<>>
  /\ nconn = 0
  /\ conn = None
  /\ written = <<>>

(***************************************************************************)
(* The tick loop, TimerEngine::run(&mut self).  The engine is shared as    *)
(* Arc<Mutex<TimerEngine>>, so the task that calls run reaches it through  *)
(* the mutex guard, and the exclusive borrow of run lasts for the whole    *)
(* loop: the guard is given back only when run returns or its task is      *)
(* aborted.                                                                *)
(***************************************************************************)
RunSpawn ==
  /\ runPc = "none"
  /\ lock = "free"
  /\ lock' = "run"
  /\ runPc' = "wait"
  /\ UNCHANGED <<state, events, rx_open, hPc, req, result, resp, paused_from>>
  /\ UNCHANGED <<cvars, pvars, fvars, nvars>>

\* a loop that ticks on every interval, whatever the phase
RunInterval_always_ticks ==
  /\ runPc = "wait"
  /\ ~(state.phase = Working /\ state.pomodoro_count >= MaxPomodoros)
  /\ LET t == state_tick(state)
     IN /\ state' = t.state
        /\ events' = Push(events, Tick(t.state.remaining_seconds))
        /\ runPc' = IF t.completed THEN "complete" ELSE "wait"
        /\ UNCHANGED lock
  /\ UNCHANGED <<rx_open, hPc, req, result, resp, paused_from>>
  /\ UNCHANGED <<cvars, pvars, fvars, nvars>>

\* a loop that reports the seconds it found, before the decrement
RunInterval_stale_tick ==
  /\ runPc = "wait"
  /\ ~(state.phase = Working /\ state.pomodoro_count >= MaxPomodoros)
  /\ IF ~is_running(state)
     THEN UNCHANGED <<state, events, lock, runPc>>
     ELSE LET t == state_tick(state)
          IN /\ state' = t.state
             /\ IF rx_open
                THEN /\ events' = Push(events, Tick(state.remaining_seconds))
                     /\ runPc' = IF t.completed THEN "complete" ELSE "wait"
                     /\ UNCHANGED lock
                ELSE /\ runPc' = "none"
                     /\ lock' = "free"
                     /\ UNCHANGED events
  /\ UNCHANGED <<rx_open, hPc, req, result, resp, paused_from>>
  /\ UNCHANGED <<cvars, pvars, fvars, nvars>>

\* one interval elapses: ticker.tick().await, the is_running check, the
\* decrement and the Tick event
RunInterval ==
  /\ runPc = "wait"
  /\ ~(state.phase = Working /\ state.pomodoro_count >= MaxPomodoros)
  /\ IF ~is_running(state)
     THEN UNCHANGED <<state, events, lock, runPc>>
     ELSE LET t == state_tick(state)
          IN /\ state' = t.state
             /\ IF rx_open
                THEN /\ events' = Push(events, Tick(t.state.remaining_seconds))
                     /\ runPc' = IF t.completed THEN "complete" ELSE "wait"
                     /\ UNCHANGED lock
                ELSE \* "Failed to send tick event": run returns
                     /\ runPc' = "none"
                     /\ lock' = "free"
                     /\ UNCHANGED events
  /\ UNCHANGED <<rx_open, hPc, req, result, resp, paused_from>>
  /\ UNCHANGED <<cvars, pvars, fvars, nvars>>

\* if completed { self.handle_timer_complete()?; }
RunComplete ==
  /\ runPc = "complete"
  /\ LET o == handle_timer_complete(state, events, rx_open)
     IN /\ state' = o.state
        /\ events' = o.events
        /\ IF o.res = "Ok"
           THEN runPc' = "wait" /\ UNCHANGED lock
           ELSE runPc' = "none" /\ lock' = "free"
  /\ UNCHANGED <<rx_open, hPc, req, result, resp, paused_from>>
  /\ UNCHANGED <<cvars, pvars, fvars, nvars>>

\* a task that can be aborted anywhere, also between the Tick and the
\* completion
RunAbort_anywhere ==
  /\ runPc \in {"wait", "complete"}
  /\ runPc' = "none"
  /\ lock' = "free"
  /\ UNCHANGED <<state, events, rx_open, hPc, req, result, resp, paused_from>>
  /\ UNCHANGED <<cvars, pvars, fvars, nvars>>

\* the task is aborted while it is suspended on the interval
RunAbort ==
  /\ runPc = "wait"
  /\ runPc' = "none"
  /\ lock' = "free"
  /\ UNCHANGED <<state, events, rx_open, hPc, req, result, resp, paused_from>>
  /\ UNCHANGED <<cvars, pvars, fvars, nvars>>

(***************************************************************************)
(* The request-serving task: accept, receive_request, RequestHandler::     *)
(* handle, send_response, one connection at a time.                        *)
(***************************************************************************)
Receive ==
  /\ hPc = "idle"
  /\ \E r \in IpcRequest : req' = Some(r)
  /\ hPc' = "received"
  /\ UNCHANGED <<state, events, rx_open, lock, runPc, result, resp,
                 paused_from>>
  /\ UNCHANGED <<cvars, pvars, fvars, nvars>>

\* a handler that enters without waiting for the mutex
HandleLock_unguarded ==
  /\ hPc = "received"
  /\ lock' = "handler"
  /\ hPc' = "locked"
  /\ UNCHANGED <<state, events, rx_open, runPc, req, result, resp,
                 paused_from>>
  /\ UNCHANGED <<cvars, pvars, fvars, nvars>>

\* self.engine.lock().await
HandleLock ==
  /\ hPc = "received"
  /\ lock = "free"
  /\ lock' = "handler"
  /\ hPc' = "locked"
  /\ UNCHANGED <<state, events, rx_open, runPc, req, result, resp, paused_from>>
  /\ UNCHANGED <<cvars, pvars, fvars, nvars>>

Apply(o) ==
  /\ state' = o.state
  /\ events' = o.events
  /\ result' = Some(o.res)
  /\ hPc' = "done"
  /\ paused_from' =
       IF unwrap(req).command = "pause" /\ o.res = "Ok" THEN Some(state)
       ELSE IF o.state.phase = Paused THEN paused_from
       ELSE None
  /\ UNCHANGED <<rx_open, lock, runPc, req, resp>>
  /\ UNCHANGED <<cvars, pvars, fvars, nvars>>

\* a start that installs the validated overrides in the engine
HandleStart_applies_overrides ==
  /\ hPc = "locked"
  /\ unwrap(req).command = "start"
  /\ LET p == unwrap(req).params
         c == merged_config(state.config, p)
         v == IF has_overrides(p) THEN validate(c) ELSE "Ok"
     IN IF v # "Ok"
        THEN Apply(Outcome(state, events, v))
        ELSE Apply(start([state EXCEPT !.config = c], events, rx_open,
                         p.task_name))

HandleStart ==
  /\ hPc = "locked"
  /\ unwrap(req).command = "start"
  /\ LET p == unwrap(req).params
         v == IF has_overrides(p)
              THEN validate(merged_config(state.config, p)) ELSE "Ok"
     IN IF v # "Ok"
        THEN Apply(Outcome(state, events, v))
        ELSE Apply(start(state, events, rx_open, p.task_name))

HandlePause ==
  /\ hPc = "locked"
  /\ unwrap(req).command = "pause"
  /\ Apply(pause(state, events, rx_open))

HandleResume ==
  /\ hPc = "locked"
  /\ unwrap(req).command = "resume"
  /\ Apply(resume(state, events, rx_open))

HandleStop ==
  /\ hPc = "locked"
  /\ unwrap(req).command = "stop"
  /\ Apply(stop(state, events, rx_open))

HandleStatus ==
  /\ hPc = "locked"
  /\ unwrap(req).command = "status"
  /\ Apply(Outcome(state, events, "Ok"))

\* a handler that answers every request with a success
HandleBuild_always_success ==
  /\ hPc = "done"
  /\ resp' = Some(success(SuccessMessage(unwrap(req).command),
                          Some(from_timer_state(state))))
  /\ hPc' = "built"
  /\ UNCHANGED <<state, events, rx_open, lock, runPc, req, result, paused_from>>
  /\ UNCHANGED <<cvars, pvars, fvars, nvars>>

\* the response is built from the engine's state through the guard
HandleBuild ==
  /\ hPc = "done"
  /\ resp' = Some(IF unwrap(result) = "Ok"
                  THEN success(SuccessMessage(unwrap(req).command),
                               Some(from_timer_state(state)))
                  ELSE error(unwrap(result)))
  /\ hPc' = "built"
  /\ UNCHANGED <<state, events, rx_open, lock, runPc, req, result, paused_from>>
  /\ UNCHANGED <<cvars, pvars, fvars, nvars>>

\* a handler that returns without dropping its guard
HandleReturn_keeps_lock ==
  /\ hPc = "built"
  /\ hPc' = "reply"
  /\ UNCHANGED <<state, events, rx_open, lock, runPc, req, result, resp,
                 paused_from>>
  /\ UNCHANGED <<cvars, pvars, fvars, nvars>>

\* the handler returns and its guard is dropped
HandleReturn ==
  /\ hPc = "built"
  /\ lock' = "free"
  /\ hPc' = "reply"
  /\ UNCHANGED <<state, events, rx_open, runPc, req, result, resp, paused_from>>
  /\ UNCHANGED <<cvars, pvars, fvars, nvars>>

\* send_response; the connection is closed
SendResponse ==
  /\ hPc = "reply"
  /\ hPc' = "idle"
  /\ req' = None
  /\ result' = None
  /\ resp' = None
  /\ UNCHANGED <<state, events, rx_open, lock, runPc, paused_from>>
  /\ UNCHANGED <<cvars, pvars, fvars, nvars>>

(***************************************************************************)
(* The client, IpcClient.  One call sends one request, with retries.  The  *)
(* daemon is seen from outside here: every attempt either fails on the way *)
(* or is answered as the handler answers the request in some timer state.  *)
(***************************************************************************)
MAX_RETRIES == 3

RETRY_DELAY_MS == 500

\* the arguments of the start command: the defaults, and a session for
\* task A whose work time the daemon refuses
StartArgsSet ==
  { [work |-> 25, break_time |-> 5, long_break |-> 15, task |-> None,
     auto_cycle |-> FALSE, focus_mode |-> FALSE],
    [work |-> 0, break_time |-> 5, long_break |-> 15, task |-> Some("A"),
     auto_cycle |-> TRUE, focus_mode |-> FALSE] }

\* IpcClient::start: every argument is sent as an override
client_start(args) ==
  [command |-> "start",
   params |-> [work_minutes |-> Some(args.work),
               break_minutes |-> Some(args.break_time),
               long_break_minutes |-> Some(args.long_break),
               task_name |-> args.task,
               auto_cycle |-> Some(args.auto_cycle),
               focus_mode |-> Some(args.focus_mode)]]

ClientRequests ==
  { client_start(a) : a \in StartArgsSet }
  \cup { [command |-> c] : c \in {"pause", "resume", "stop", "status"} }

\* RequestHandler::handle as a function: the response to request q of a
\* daemon whose timer is in state s
handle(s, q) ==
  LET v == IF q.command = "start" /\ has_overrides(q.params)
           THEN validate(merged_config(s.config, q.params)) ELSE "Ok"
      o == CASE q.command = "start" -> start(s, <<>>, TRUE, q.params.task_name)
             [] q.command = "pause" -> pause(s, <<>>, TRUE)
             [] q.command = "resume" -> resume(s, <<>>, TRUE)
             [] q.command = "stop" -> stop(s, <<>>, TRUE)
             [] q.command = "status" -> Outcome(s, <<>>, "Ok")
  IN IF v # "Ok" THEN error(v)
     ELSE IF o.res = "Ok"
          THEN success(SuccessMessage(q.command),
                       Some(from_timer_state(o.state)))
     ELSE error(o.res)

\* timer states a daemon may be in when an attempt reaches it
ServerStates ==
  LET s0 == TimerState_new(CHOOSE c \in Configs : ~c.auto_cycle)
      s1 == start_working(s0, Some("A"))
  IN {s0, s1, state_pause(s1)}

\* the ways one attempt can end before a response has been read
TransportFailures ==
  {"connect_timeout", "connect_failed", "write_failed", "read_timeout",
   "closed", "unparsable"}

\* what can happen to one attempt to send request q
AttemptOutcomes(q) ==
  { [kind |-> k, response |-> None] : k \in TransportFailures }
  \cup { [kind |-> "response", response |-> Some(handle(s, q))] :
           s \in ServerStates }

Ok(response) == [ok |-> TRUE, response |-> Some(response), error |-> None]

Err(message) == [ok |-> FALSE, response |-> None, error |-> Some(message)]

\* the text of the error of an attempt that got no response it could read
TransportError(kind) ==
  CASE kind = "connect_timeout" -> "connection timed out"
    [] kind = "connect_failed" -> "cannot connect to the daemon"
    [] kind = "write_failed" -> "failed to send the request"
    [] kind = "read_timeout" -> "read timed out"
    [] kind = "closed" -> "no response from the daemon"
    [] kind = "unparsable" -> "failed to parse the response"

\* send_request that hands every response it can read to the caller
send_request_trusts_status(o) ==
  IF o.kind # "response" THEN Err(TransportError(o.kind))
  ELSE Ok(unwrap(o.response))

\* IpcClient::send_request, given what happens to the attempt
send_request(o) ==
  IF o.kind # "response" THEN Err(TransportError(o.kind))
  ELSE IF unwrap(o.response).status = "error"
       THEN Err(unwrap(o.response).message)
  ELSE Ok(unwrap(o.response))

\* IpcClient::start, pause, resume, stop, status: the call enters the loop
ClientCall ==
  /\ cPc = "idle"
  /\ \E q \in ClientRequests : creq' = Some(q)
  /\ last_error' = None
  /\ attempt' = 1
  /\ cPc' = "attempt"
  /\ UNCHANGED <<cresult, tries, slept>>
  /\ UNCHANGED <<state, events, rx_open, lock, runPc, hPc, req, result, resp,
                 paused_from>>
  /\ UNCHANGED <<pvars, fvars, nvars>>

\* a retry loop that goes round once more than MAX_RETRIES times
ClientAttempt_one_more ==
  /\ cPc = "attempt"
  /\ \E o \in AttemptOutcomes(unwrap(creq)) :
       LET r == send_request(o)
       IN /\ tries' = Append(tries, o)
          /\ IF r.ok
             THEN /\ cresult' = Some(r)
                  /\ cPc' = "returned"
                  /\ UNCHANGED last_error
             ELSE /\ last_error' = r.error
                  /\ IF attempt <= MAX_RETRIES
                     THEN cPc' = "sleep" /\ UNCHANGED cresult
                     ELSE cPc' = "returned" /\ cresult' = Some(r)
  /\ UNCHANGED <<creq, attempt, slept>>
  /\ UNCHANGED <<state, events, rx_open, lock, runPc, hPc, req, result, resp,
                 paused_from>>
  /\ UNCHANGED <<pvars, fvars, nvars>>

\* a retry loop that reports the first error it met
ClientAttempt_first_error ==
  /\ cPc = "attempt"
  /\ \E o \in AttemptOutcomes(unwrap(creq)) :
       LET r == send_request(o)
           e == IF last_error = None THEN r.error ELSE last_error
       IN /\ tries' = Append(tries, o)
          /\ IF r.ok
             THEN /\ cresult' = Some(r)
                  /\ cPc' = "returned"
                  /\ UNCHANGED last_error
             ELSE /\ last_error' = e
                  /\ IF attempt < MAX_RETRIES
                     THEN cPc' = "sleep" /\ UNCHANGED cresult
                     ELSE cPc' = "returned" /\ cresult' = Some(Err(unwrap(e)))
  /\ UNCHANGED <<creq, attempt, slept>>
  /\ UNCHANGED <<state, events, rx_open, lock, runPc, hPc, req, result, resp,
                 paused_from>>
  /\ UNCHANGED <<pvars, fvars, nvars>>

\* one round of the loop: send_request and the match on its result; after
\* the last round the call returns Err(last_error.unwrap())
ClientAttempt ==
  /\ cPc = "attempt"
  /\ \E o \in AttemptOutcomes(unwrap(creq)) :
       LET r == send_request(o)
       IN /\ tries' = Append(tries, o)
          /\ IF r.ok
             THEN /\ cresult' = Some(r)
                  /\ cPc' = "returned"
                  /\ UNCHANGED last_error
             ELSE /\ last_error' = r.error
                  /\ IF attempt < MAX_RETRIES
                     THEN cPc' = "sleep" /\ UNCHANGED cresult
                     ELSE cPc' = "returned" /\ cresult' = Some(r)
  /\ UNCHANGED <<creq, attempt, slept>>
  /\ UNCHANGED <<state, events, rx_open, lock, runPc, hPc, req, result, resp,
                 paused_from>>
  /\ UNCHANGED <<pvars, fvars, nvars>>

\* a retry loop that waits the base delay before every retry
ClientWake_constant_delay ==
  /\ cPc = "sleep"
  /\ slept' = slept + RETRY_DELAY_MS
  /\ attempt' = attempt + 1
  /\ cPc' = "attempt"
  /\ UNCHANGED <<creq, last_error, cresult, tries>>
  /\ UNCHANGED <<state, events, rx_open, lock, runPc, hPc, req, result, resp,
                 paused_from>>
  /\ UNCHANGED <<pvars, fvars, nvars>>

\* tokio::time::sleep(RETRY_DELAY_MS * attempt) is over: the next round
ClientWake ==
  /\ cPc = "sleep"
  /\ slept' = slept + RETRY_DELAY_MS * attempt
  /\ attempt' = attempt + 1
  /\ cPc' = "attempt"
  /\ UNCHANGED <<creq, last_error, cresult, tries>>
  /\ UNCHANGED <<state, events, rx_open, lock, runPc, hPc, req, result, resp,
                 paused_from>>
  /\ UNCHANGED <<pvars, fvars, nvars>>

ClientNext == ClientCall \/ ClientAttempt \/ ClientWake

ClientSpec == Init /\ [][ClientNext]_vars

(***************************************************************************)
(* Calls of the pure functions TimerState::tick and                        *)
(* PomodoroConfig::validate on values a caller can build: all fields of    *)
(* the config and remaining_seconds are public.                            *)
(***************************************************************************)
MaxRemaining == 3

MaxCalls == 4

\* timer states to tick: every phase, 0..MaxRemaining seconds left
TickInputs ==
  { [TimerState_new(c) EXCEPT !.phase = ph, !.remaining_seconds = r] :
      c \in Configs, ph \in TimerPhase, r \in 0..MaxRemaining }

\* configs to validate: the bounds of each range and their neighbours
ValidateInputs ==
  [work_minutes : {0, 1, 120, 121}, break_minutes : {0, 1, 60, 61},
   long_break_minutes : {0, 1, 60, 61}, auto_cycle : {FALSE},
   focus_mode : {FALSE}]

\* state.tick() on a fresh value
CallTick ==
  /\ \E s \in TickInputs :
       /\ call' = Some([fn |-> "tick", arg |-> s, n |-> 1])
       /\ ret' = Some(state_tick(s))
  /\ UNCHANGED <<dvars, cvars, fvars, nvars>>

\* state.tick() once more on the value the last call left
CallTickAgain ==
  /\ is_some(call)
  /\ unwrap(call).fn = "tick"
  /\ unwrap(call).n < MaxCalls
  /\ LET s == unwrap(ret).state
     IN /\ call' = Some([fn |-> "tick", arg |-> s, n |-> unwrap(call).n + 1])
        /\ ret' = Some(state_tick(s))
  /\ UNCHANGED <<dvars, cvars, fvars, nvars>>

\* config.validate(): the config is borrowed immutably
CallValidate ==
  /\ \E c \in ValidateInputs :
       /\ call' = Some([fn |-> "validate", arg |-> c, n |-> 1])
       /\ ret' = Some([res |-> validate(c), config |-> c])
  /\ UNCHANGED <<dvars, cvars, fvars, nvars>>

(***************************************************************************)
(* The wire form: JSON as serde_json writes and reads it for the derived   *)
(* Serialize and Deserialize of the types.  A JSON value is tagged with    *)
(* its kind; an object is the sequence of its members <<key, value>> in    *)
(* the order the fields are written.                                       *)
(***************************************************************************)
Null == [t |-> "null"]
Str(v) == [t |-> "str", v |-> v]
Num(v) == [t |-> "num", v |-> v]
Bool(v) == [t |-> "bool", v |-> v]
Obj(members) == [t |-> "obj", v |-> members]

\* a field that is always written
Field(k, j) == << <<k, j>> >>

\* a field with skip_serializing_if = "Option::is_none"
OptField(k, o, J(_)) == IF o = None THEN <<>> ELSE << <<k, J(unwrap(o))>> >>

\* an Option field without the attribute: None is written as null
NullableField(k, o, J(_)) ==
  IF o = None THEN << <<k, Null>> >> ELSE << <<k, J(unwrap(o))>> >>

\* the member of object j with key k, if there is one
Get(j, k) ==
  LET found == {i \in 1..Len(j.v) : j.v[i][1] = k}
  IN IF found = {} THEN None ELSE Some(j.v[CHOOSE i \in found : TRUE][2])

\* a required member: it is there and has kind t
Has(j, k, t) == is_some(Get(j, k)) /\ unwrap(Get(j, k)).t = t

\* an Option member: absent, null or of kind t
MayHave(j, k, t) ==
  is_some(Get(j, k)) => unwrap(Get(j, k)).t \in {"null", t}

\* the value of an Option member: None when absent or null
OptValue(j, k) ==
  IF is_some(Get(j, k)) /\ unwrap(Get(j, k)).t # "null"
  THEN Some(unwrap(Get(j, k)).v) ELSE None

\* #[serde(rename_all = "snake_case")] of TimerPhase
PhaseName(ph) ==
  CASE ph = Stopped -> "stopped"
    [] ph = Working -> "working"
    [] ph = Breaking -> "breaking"
    [] ph = LongBreaking -> "long_breaking"
    [] ph = Paused -> "paused"

PhaseJson(ph) == Str(PhaseName(ph))

PhaseNamed(name) == CHOOSE ph \in TimerPhase : PhaseName(ph) = name

IsPhaseName(name) == \E ph \in TimerPhase : PhaseName(ph) = name

config_to_json(c) ==
  Obj(Field("work_minutes", Num(c.work_minutes))
      \o Field("break_minutes", Num(c.break_minutes))
      \o Field("long_break_minutes", Num(c.long_break_minutes))
      \o Field("auto_cycle", Bool(c.auto_cycle))
      \o Field("focus_mode", Bool(c.focus_mode)))

\* Some(config), or None for a deserialization error
config_from_json(j) ==
  IF /\ j.t = "obj"
     /\ Has(j, "work_minutes", "num") /\ Has(j, "break_minutes", "num")
     /\ Has(j, "long_break_minutes", "num")
     /\ Has(j, "auto_cycle", "bool") /\ Has(j, "focus_mode", "bool")
  THEN Some([work_minutes |-> unwrap(Get(j, "work_minutes")).v,
             break_minutes |-> unwrap(Get(j, "break_minutes")).v,
             long_break_minutes |-> unwrap(Get(j, "long_break_minutes")).v,
             auto_cycle |-> unwrap(Get(j, "auto_cycle")).v,
             focus_mode |-> unwrap(Get(j, "focus_mode")).v])
  ELSE None

state_to_json(s) ==
  Obj(Field("phase", PhaseJson(s.phase))
      \o Field("remaining_seconds", Num(s.remaining_seconds))
      \o Field("pomodoro_count", Num(s.pomodoro_count))
      \o NullableField("task_name", s.task_name, Str)
      \o Field("config", config_to_json(s.config))
      \o OptField("previous_phase", s.previous_phase, PhaseJson))

state_from_json(j) ==
  IF /\ j.t = "obj"
     /\ Has(j, "phase", "str") /\ IsPhaseName(unwrap(Get(j, "phase")).v)
     /\ Has(j, "remaining_seconds", "num")
     /\ Has(j, "pomodoro_count", "num")
     /\ MayHave(j, "task_name", "str")
     /\ is_some(Get(j, "config"))
     /\ is_some(config_from_json(unwrap(Get(j, "config"))))
     /\ MayHave(j, "previous_phase", "str")
     /\ is_some(OptValue(j, "previous_phase")) =>
          IsPhaseName(unwrap(OptValue(j, "previous_phase")))
  THEN Some([phase |-> PhaseNamed(unwrap(Get(j, "phase")).v),
             remaining_seconds |-> unwrap(Get(j, "remaining_seconds")).v,
             pomodoro_count |-> unwrap(Get(j, "pomodoro_count")).v,
             task_name |-> OptValue(j, "task_name"),
             config |-> unwrap(config_from_json(unwrap(Get(j, "config")))),
             previous_phase |->
               IF is_some(OptValue(j, "previous_phase"))
               THEN Some(PhaseNamed(unwrap(OptValue(j, "previous_phase"))))
               ELSE None])
  ELSE None

\* StartParams: camelCase names, None fields are left out
params_members(p) ==
  OptField("workMinutes", p.work_minutes, Num)
  \o OptField("breakMinutes", p.break_minutes, Num)
  \o OptField("longBreakMinutes", p.long_break_minutes, Num)
  \o OptField("taskName", p.task_name, Str)
  \o OptField("autoCycle", p.auto_cycle, Bool)
  \o OptField("focusMode", p.focus_mode, Bool)

\* a request that writes the parameters as a member "params" of their own
request_to_json_nested(q) ==
  Obj(Field("command", Str(q.command))
      \o IF q.command = "start"
         THEN Field("params", Obj(params_members(q.params))) ELSE <<>>)

\* IpcRequest: #[serde(tag = "command", rename_all = "lowercase")], the
\* parameters of Start flattened into the object of the request
request_to_json(q) ==
  Obj(Field("command", Str(q.command))
      \o IF q.command = "start" THEN params_members(q.params) ELSE <<>>)

request_from_json(j) ==
  IF j.t # "obj" \/ ~Has(j, "command", "str") THEN None
  ELSE LET c == unwrap(Get(j, "command")).v
       IN IF c \in {"pause", "resume", "stop", "status"}
          THEN Some([command |-> c])
          ELSE IF /\ c = "start"
                  /\ MayHave(j, "workMinutes", "num")
                  /\ MayHave(j, "breakMinutes", "num")
                  /\ MayHave(j, "longBreakMinutes", "num")
                  /\ MayHave(j, "taskName", "str")
                  /\ MayHave(j, "autoCycle", "bool")
                  /\ MayHave(j, "focusMode", "bool")
          THEN Some([command |-> "start",
                     params |->
                       [work_minutes |-> OptValue(j, "workMinutes"),
                        break_minutes |-> OptValue(j, "breakMinutes"),
                        long_break_minutes |->
                          OptValue(j, "longBreakMinutes"),
                        task_name |-> OptValue(j, "taskName"),
                        auto_cycle |-> OptValue(j, "autoCycle"),
                        focus_mode |-> OptValue(j, "focusMode")]])
          ELSE None

data_to_json(d) ==
  Obj(OptField("state", d.state, Str)
      \o OptField("remainingSeconds", d.remaining_seconds, Num)
      \o OptField("pomodoroCount", d.pomodoro_count, Num)
      \o OptField("taskName", d.task_name, Str))

response_to_json(r) ==
  Obj(Field("status", Str(r.status))
      \o Field("message", Str(r.message))
      \o OptField("data", r.data, data_to_json))

data_ok(j) ==
  /\ j.t = "obj"
  /\ MayHave(j, "state", "str")
  /\ MayHave(j, "remainingSeconds", "num")
  /\ MayHave(j, "pomodoroCount", "num")
  /\ MayHave(j, "taskName", "str")

data_from_json(j) ==
  [state |-> OptValue(j, "state"),
   remaining_seconds |-> OptValue(j, "remainingSeconds"),
   pomodoro_count |-> OptValue(j, "pomodoroCount"),
   task_name |-> OptValue(j, "taskName")]

response_from_json(j) ==
  IF /\ j.t = "obj"
     /\ Has(j, "status", "str") /\ Has(j, "message", "str")
     /\ MayHave(j, "data", "obj")
     /\ Has(j, "data", "obj") => data_ok(unwrap(Get(j, "data")))
  THEN Some([status |-> unwrap(Get(j, "status")).v,
             message |-> unwrap(Get(j, "message")).v,
             data |-> IF Has(j, "data", "obj")
                      THEN Some(data_from_json(unwrap(Get(j, "data"))))
                      ELSE None])
  ELSE None

\* the wire form of a value of each type; TimerEvent derives neither
\* Serialize nor Deserialize and has none
to_wire(kind, v) ==
  CASE kind = "TimerState" -> Some(state_to_json(v))
    [] kind = "IpcRequest" -> Some(request_to_json(v))
    [] kind = "IpcResponse" -> Some(response_to_json(v))
    [] kind = "TimerEvent" -> None

from_wire(kind, w) ==
  IF w = None THEN None
  ELSE CASE kind = "TimerState" -> state_from_json(unwrap(w))
         [] kind = "IpcRequest" -> request_from_json(unwrap(w))
         [] kind = "IpcResponse" -> response_from_json(unwrap(w))
         [] kind = "TimerEvent" -> None

\* ResponseData::default()
NoData ==
  [state |-> None, remaining_seconds |-> None, pomodoro_count |-> None,
   task_name |-> None]

\* values to send over the wire
WireInputs ==
  { [kind |-> "TimerState", value |-> s] :
      s \in ServerStates \cup {state_pause(start_breaking(x)) :
                                 x \in ServerStates} }
  \cup { [kind |-> "IpcRequest", value |-> q] :
           q \in IpcRequest \cup ClientRequests }
  \cup { [kind |-> "IpcResponse", value |-> r] :
           r \in { handle(x, q) : x \in ServerStates, q \in ClientRequests }
                 \cup { success("", None), success("", Some(NoData)) } }
  \cup { [kind |-> "TimerEvent", value |-> e] :
           e \in { WorkStarted(None), WorkStarted(Some("A")),
                   WorkCompleted(1, None), BreakStarted(FALSE),
                   BreakCompleted(TRUE), EvPaused, EvResumed, EvStopped,
                   Tick(0) } }

\* serialize a value and deserialize what was written
CallRoundTrip ==
  /\ \E x \in WireInputs :
       /\ call' = Some([fn |-> "round_trip", arg |-> x, n |-> 1])
       /\ ret' = from_wire(x.kind, to_wire(x.kind, x.value))
  /\ UNCHANGED <<dvars, cvars, fvars, nvars>>

CallNext == CallTick \/ CallTickAgain \/ CallValidate \/ CallRoundTrip

CallSpec == Init /\ [][CallNext]_vars

(***************************************************************************)
(* The serving loop: accept, receive_request, handle, send_response, one   *)
(* connection after the other.  A connection carries what its client       *)
(* wrote before it shut its sending side down.                             *)
(***************************************************************************)
MaxConns == 3

MaxServeTicks == 2

\* what a client may have written: nothing, a request, bytes that are not
\* JSON, JSON that is not a request
Payloads ==
  { None, Some([t |-> "garbage"]), Some(Obj(Field("command", Str("bogus")))) }
  \cup { Some(request_to_json(q)) :
           q \in { [command |-> "start",
                    params |-> [NoParams EXCEPT !.task_name = Some("A")]],
                   [command |-> "pause"], [command |-> "stop"] } }

\* receive_request: Some(request), or None for any of its errors
receive_request(bytes) ==
  IF bytes = None THEN None ELSE request_from_json(unwrap(bytes))

\* a client connects and writes; the listener queues the connection
Connect ==
  /\ nconn < MaxConns
  /\ \E w \in Payloads :
       backlog' = Append(backlog, [id |-> nconn + 1, bytes |-> w])
  /\ nconn' = nconn + 1
  /\ UNCHANGED <<conn, written>>
  /\ UNCHANGED <<dvars, cvars, pvars, fvars>>

\* a loop that accepts the newest waiting connection
Accept_newest ==
  /\ hPc = "idle"
  /\ backlog # <<>>
  /\ conn' = Some(backlog[Len(backlog)])
  /\ backlog' = SubSeq(backlog, 1, Len(backlog) - 1)
  /\ hPc' = "accepted"
  /\ UNCHANGED <<nconn, written>>
  /\ UNCHANGED <<state, events, rx_open, lock, runPc, req, result, resp,
                 paused_from>>
  /\ UNCHANGED <<cvars, pvars, fvars>>

\* server.accept(): the oldest waiting connection
Accept ==
  /\ hPc = "idle"
  /\ backlog # <<>>
  /\ conn' = Some(Head(backlog))
  /\ backlog' = Tail(backlog)
  /\ hPc' = "accepted"
  /\ UNCHANGED <<nconn, written>>
  /\ UNCHANGED <<state, events, rx_open, lock, runPc, req, result, resp,
                 paused_from>>
  /\ UNCHANGED <<cvars, pvars, fvars>>

\* a loop that serves a Stop for every request it cannot read
ReceiveRequest_serves_unreadable ==
  /\ hPc = "accepted"
  /\ LET r == receive_request(unwrap(conn).bytes)
     IN req' = IF r = None THEN Some([command |-> "stop"]) ELSE r
  /\ hPc' = "received"
  /\ UNCHANGED <<backlog, nconn, conn, written>>
  /\ UNCHANGED <<state, events, rx_open, lock, runPc, result, resp,
                 paused_from>>
  /\ UNCHANGED <<cvars, pvars, fvars>>

\* IpcServer::receive_request; on an error the loop drops the stream and
\* goes round
ReceiveRequest ==
  /\ hPc = "accepted"
  /\ LET r == receive_request(unwrap(conn).bytes)
     IN IF r = None
        THEN /\ hPc' = "idle"
             /\ conn' = None
             /\ UNCHANGED req
        ELSE /\ hPc' = "received"
             /\ req' = r
             /\ UNCHANGED conn
  /\ UNCHANGED <<backlog, nconn, written>>
  /\ UNCHANGED <<state, events, rx_open, lock, runPc, result, resp,
                 paused_from>>
  /\ UNCHANGED <<cvars, pvars, fvars>>

\* IpcServer::send_response is called for the connection; the stream is
\* dropped and the loop goes round
ServeSend ==
  /\ hPc = "reply"
  /\ is_some(conn)
  /\ written' = Append(written, unwrap(conn).id)
  /\ hPc' = "idle"
  /\ req' = None
  /\ result' = None
  /\ resp' = None
  /\ conn' = None
  /\ UNCHANGED <<backlog, nconn>>
  /\ UNCHANGED <<state, events, rx_open, lock, runPc, paused_from>>
  /\ UNCHANGED <<cvars, pvars, fvars>>

\* an interval of the tick loop, within the first MaxServeTicks seconds
\* of a session
ServeTick ==
  /\ is_running(state) =>
       state.remaining_seconds >
         state.config.work_minutes * SecondsPerMinute - MaxServeTicks
  /\ RunInterval

ServeNext ==
  \/ Connect \/ Accept \/ ReceiveRequest
  \/ HandleLock \/ HandleStart \/ HandlePause \/ HandleStop
  \/ HandleBuild \/ HandleReturn \/ ServeSend
  \/ RunSpawn \/ ServeTick \/ RunAbort

ServeSpec == Init /\ [][ServeNext]_vars

(***************************************************************************)
(* IpcServer values and the socket paths.  Daemons are processes of their  *)
(* own, so more than one IpcServer may be created, on the same path too.   *)
(***************************************************************************)
\* somebody creates the directory a socket path lies in
MakeDir ==
  /\ \E p \in Paths : ~dir[p] /\ dir' = [dir EXCEPT ![p] = TRUE]
  /\ UNCHANGED <<srv, fs>>
  /\ UNCHANGED <<dvars, cvars, pvars, nvars>>

\* somebody leaves a plain file at a socket path
WriteFile ==
  /\ \E p \in Paths :
       /\ dir[p]
       /\ fs[p] = Absent
       /\ fs' = [fs EXCEPT ![p] = PlainFile]
  /\ UNCHANGED <<srv, dir>>
  /\ UNCHANGED <<dvars, cvars, pvars, nvars>>

\* IpcServer::new(path): remove what is at the path, create the parent
\* directory, bind
NewServer ==
  /\ \E i \in Servers, p \in Paths :
       /\ srv[i] = None
       /\ srv' = [srv EXCEPT ![i] = Some(p)]
       /\ dir' = [dir EXCEPT ![p] = TRUE]
       /\ fs' = [fs EXCEPT ![p] = SocketOf(i)]
  /\ UNCHANGED <<dvars, cvars, pvars, nvars>>

\* drop(server): remove_file(socket_path), whatever is there by now
DropServer ==
  /\ \E i \in Servers :
       /\ srv[i] # None
       /\ fs' = [fs EXCEPT ![unwrap(srv[i])] = Absent]
       /\ srv' = [srv EXCEPT ![i] = None]
  /\ UNCHANGED dir
  /\ UNCHANGED <<dvars, cvars, pvars, nvars>>

SocketNext == MakeDir \/ WriteFile \/ NewServer \/ DropServer

SocketSpec == Init /\ [][SocketNext]_vars

Next ==
  \/ RunSpawn \/ RunInterval \/ RunComplete \/ RunAbort
  \/ Receive \/ HandleLock
  \/ HandleStart \/ HandlePause \/ HandleResume \/ HandleStop \/ HandleStatus
  \/ HandleBuild \/ HandleReturn \/ SendResponse

Spec == Init /\ [][Next]_vars

(***************************************************************************)
(* The daemon left to itself: nobody aborts the task that executes run.    *)
(* The runtime schedules every task that can take a step, and the tokio    *)
(* mutex serves its waiters in order, so a handler that can take the lock  *)
(* again and again does get it.                                            *)
(***************************************************************************)
DaemonNext ==
  \/ RunSpawn \/ RunInterval \/ RunComplete
  \/ Receive \/ HandleLock
  \/ HandleStart \/ HandlePause \/ HandleResume \/ HandleStop \/ HandleStatus
  \/ HandleBuild \/ HandleReturn \/ SendResponse

FairDaemon ==
  /\ Init
  /\ [][DaemonNext]_vars
  /\ WF_vars(RunInterval)
  /\ WF_vars(RunComplete)
  /\ SF_vars(HandleLock)
  /\ WF_vars(HandleStart \/ HandlePause \/ HandleResume \/ HandleStop
               \/ HandleStatus)
  /\ WF_vars(HandleBuild)
  /\ WF_vars(HandleReturn)
  /\ WF_vars(SendResponse)

(***************************************************************************)
(* The request-serving task with an event receiver that may go away: the   *)
(* engine only holds the sender, and whoever holds the UnboundedReceiver   *)
(* can drop it at any time.  Every send fails from then on.  The tick      *)
(* loop is not spawned.                                                    *)
(***************************************************************************)
DropReceiver ==
  /\ rx_open
  /\ rx_open' = FALSE
  /\ UNCHANGED <<state, events, lock, runPc, hPc, req, result, resp,
                 paused_from>>
  /\ UNCHANGED <<cvars, pvars, fvars, nvars>>

DroppedNext ==
  \/ DropReceiver
  \/ Receive \/ HandleLock
  \/ HandleStart \/ HandlePause \/ HandleResume \/ HandleStop \/ HandleStatus
  \/ HandleBuild \/ HandleReturn \/ SendResponse

DroppedSpec == Init /\ [][DroppedNext]_vars

TypeOK ==
  /\ state.phase \in TimerPhase
  /\ state.remaining_seconds \in 0..(120 * SecondsPerMinute)
  /\ state.pomodoro_count \in 0..MaxPomodoros
  /\ lock \in {"free", "run", "handler"}
  /\ runPc \in {"none", "wait", "complete"}
  /\ hPc \in {"idle", "accepted", "received", "locked", "done", "built",
              "reply"}

(***************************************************************************)
(* Steps of the two tasks, as seen in a pair of states.                    *)
(***************************************************************************)
\* the handler's engine call
OpStep == hPc = "locked" /\ hPc' = "done"

\* the handler builds its response
BuildStep == hPc = "done" /\ hPc' = "built"

\* the second half of a tick: handle_timer_complete
CompleteStep == runPc = "complete" /\ runPc' # "complete"

\* any step of the tick loop that touches the engine
TickStep ==
  runPc # "none" /\ hPc' = hPc /\ <<state, events>>' # <<state, events>>

\* the handler is between taking and giving back the mutex
InHandler == hPc \in {"locked", "done", "built"}

Command == unwrap(req).command

\* a Start request reaches the engine iff its overrides pass validation
StartReachesEngine ==
  LET p == unwrap(req).params
  IN has_overrides(p) => validate(merged_config(state.config, p)) = "Ok"

PhaseErrors == {ErrAlreadyRunning, ErrNotRunning, ErrNotPaused}

LastEvent == events[Len(events)]

\* the phase that is being counted, also while it is paused
CountedPhase(s) ==
  IF s.phase = Paused /\ is_some(s.previous_phase)
  THEN unwrap(s.previous_phase) ELSE s.phase

C2_RejectedCommandChangesNothing ==
  [][/\ (OpStep /\ unwrap(result') \in PhaseErrors) =>
          state' = state /\ events' = events
     /\ (OpStep /\ Command = "start" /\ StartReachesEngine
               /\ is_active(state.phase)) =>
          result' = Some(ErrAlreadyRunning)
     /\ (OpStep /\ Command = "pause" /\ state.phase = Stopped) =>
          result' = Some(ErrNotRunning) /\ state'.phase = Stopped
     /\ (BuildStep /\ unwrap(result) \in PhaseErrors) =>
          /\ resp' = Some(error(unwrap(result)))
          /\ state' = state /\ events' = events]_vars

\* a Start was refused during a break
C2_Witness ==
  /\ hPc = "built"
  /\ Command = "start"
  /\ resp = Some(error(ErrAlreadyRunning))
  /\ state.phase = Breaking
  /\ state.remaining_seconds < state.config.break_minutes * SecondsPerMinute

(***************************************************************************)
(* C3: a successful resume puts the timer back into the phase that was     *)
(* active at the matching pause, with the remaining seconds, the session   *)
(* count and the task of that moment.                                      *)
(***************************************************************************)
C3_ResumeRestoresPausedPhase ==
  [][(OpStep /\ Command = "resume" /\ result' = Some("Ok")) =>
       /\ is_some(paused_from)
       /\ LET p == unwrap(paused_from)
          IN /\ is_active(p.phase)
             /\ state'.phase = p.phase
             /\ state'.remaining_seconds = p.remaining_seconds
             /\ state'.pomodoro_count = p.pomodoro_count
             /\ state'.task_name = p.task_name]_vars

\* a long break was resumed part-way through
C3_Witness ==
  /\ hPc = "done"
  /\ Command = "resume"
  /\ result = Some("Ok")
  /\ state.phase = LongBreaking
  /\ state.remaining_seconds
       < state.config.long_break_minutes * SecondsPerMinute

(***************************************************************************)
(* C4: pomodoro_count grows by exactly 1 when a Working phase completes    *)
(* and is left alone by every other step.                                  *)
(***************************************************************************)
C4_CountGrowsOnlyOnWorkCompletion ==
  [][state'.pomodoro_count =
       IF CompleteStep /\ state.phase = Working
       THEN state.pomodoro_count + 1
       ELSE state.pomodoro_count]_vars

\* two sessions were completed and the timer was then stopped
C4_Witness ==
  /\ state.pomodoro_count = 2
  /\ state.phase = Stopped
  /\ Len(events) > 0
  /\ LastEvent = EvStopped

(***************************************************************************)
(* C5: the break entered when a Working phase completes is LongBreaking    *)
(* with long_break_minutes*60 seconds iff the count after the increment is *)
(* a positive multiple of 4, else Breaking with break_minutes*60 seconds,  *)
(* and a break never changes its kind afterwards.                          *)
(***************************************************************************)
C5_LongBreakRule ==
  [][/\ (CompleteStep /\ state.phase = Working) =>
          LET n == state.pomodoro_count + 1
          IN IF n > 0 /\ n % 4 = 0
             THEN /\ state'.phase = LongBreaking
                  /\ state'.remaining_seconds =
                       state.config.long_break_minutes * SecondsPerMinute
             ELSE /\ state'.phase = Breaking
                  /\ state'.remaining_seconds =
                       state.config.break_minutes * SecondsPerMinute
     /\ CountedPhase(state) = Breaking => CountedPhase(state') # LongBreaking
     /\ CountedPhase(state) = LongBreaking => CountedPhase(state') # Breaking
    ]_vars

\* the fourth session has just completed
C5_Witness ==
  /\ state.phase = LongBreaking
  /\ state.pomodoro_count = 4
  /\ state.remaining_seconds
       = state.config.long_break_minutes * SecondsPerMinute
  /\ Len(events) > 0
  /\ LastEvent = BreakStarted(TRUE)

(***************************************************************************)
(* C6: the completion of a Working phase appends WorkCompleted with the    *)
(* incremented count and the task, then BreakStarted with the kind of the  *)
(* break that was entered, next to each other in the channel.              *)
(***************************************************************************)
BreakStartedFollowsWorkCompleted(ch) ==
  \A i \in 2..Len(ch) :
     ch[i].type = "BreakStarted" => ch[i - 1].type = "WorkCompleted"

C6_WorkCompletedThenBreakStarted ==
  [][/\ (CompleteStep /\ state.phase = Working) =>
          events' =
            Push(Push(events, WorkCompleted(state.pomodoro_count + 1,
                                            state.task_name)),
                 BreakStarted(state'.phase = LongBreaking))
     /\ BreakStartedFollowsWorkCompleted(events)
     /\ BreakStartedFollowsWorkCompleted(events')]_vars

\* the first session of task A has just completed
C6_Witness ==
  /\ events = <<Tick(0), WorkCompleted(1, Some("A")), BreakStarted(FALSE)>>
  /\ state.phase = Breaking
  /\ runPc = "wait"

(***************************************************************************)
(* C7: the completion of a break appends BreakCompleted first; with        *)
(* auto_cycle the timer then works again for work_minutes*60 seconds on    *)
(* the same task and WorkStarted follows; without it the timer is Stopped  *)
(* with 0 seconds and no task, and nothing else is emitted.                *)
(***************************************************************************)
C7_BreakCompletion ==
  [][(CompleteStep /\ state.phase \in {Breaking, LongBreaking}) =>
       LET done == Push(events, BreakCompleted(state.phase = LongBreaking))
       IN IF state.config.auto_cycle
          THEN /\ state'.phase = Working
               /\ state'.remaining_seconds =
                    state.config.work_minutes * SecondsPerMinute
               /\ state'.task_name = state.task_name
               /\ events' = Push(done, WorkStarted(state.task_name))
          ELSE /\ state'.phase = Stopped
               /\ state'.remaining_seconds = 0
               /\ state'.task_name = None
               /\ events' = done]_vars

\* a long break has ended without auto_cycle
C7_Witness ==
  /\ state.phase = Stopped
  /\ ~state.config.auto_cycle
  /\ Len(events) > 0
  /\ LastEvent = BreakCompleted(TRUE)

(***************************************************************************)
(* C8: a tick and a handler's engine operation never overlap: no step of   *)
(* the tick loop happens while a handler holds the engine, and no handler  *)
(* operates on the engine in the middle of a tick.                         *)
(***************************************************************************)
C8_TickAndCommandNeverOverlap ==
  [][/\ TickStep => ~InHandler /\ lock = "run"
     /\ OpStep => runPc # "complete" /\ lock = "handler"
     /\ ~(InHandler /\ runPc = "complete")
     /\ ~(InHandler' /\ runPc' = "complete")]_vars

\* a pause request waits while a tick is half done
C8_Witness ==
  /\ runPc = "complete"
  /\ hPc = "received"
  /\ Command = "pause"
  /\ lock = "run"

(***************************************************************************)
(* C9: the tick loop does not hold the engine lock while it waits for the  *)
(* next interval.                                                          *)
(***************************************************************************)
C9_LoopFreesLockWhileWaiting == runPc = "wait" => lock # "run"

(***************************************************************************)
(* C10: a successful start, from Stopped or from Paused, sets the phase to *)
(* Working, the remaining seconds to work_minutes*60 of the engine's own   *)
(* config, the task to the given one and previous_phase to none, changes   *)
(* nothing else, and emits exactly one WorkStarted with that task.         *)
(***************************************************************************)
C10_SuccessfulStart ==
  [][(OpStep /\ Command = "start" /\ result' = Some("Ok")) =>
       LET task == unwrap(req).params.task_name
       IN /\ state.phase \in {Stopped, Paused}
          /\ state' =
               [state EXCEPT
                  !.phase = Working,
                  !.remaining_seconds =
                     state.config.work_minutes * SecondsPerMinute,
                  !.task_name = task,
                  !.previous_phase = None]
          /\ events' = Push(events, WorkStarted(task))]_vars

\* a paused break was discarded by a start that carried a workMinutes override
C10_Witness ==
  /\ hPc = "done"
  /\ Command = "start"
  /\ result = Some("Ok")
  /\ unwrap(req).params.work_minutes = Some(2)
  /\ state.remaining_seconds = 60
  /\ Len(events) = 3
  /\ events[1].type = "BreakStarted"
  /\ events[2] = EvPaused
  /\ events[3] = WorkStarted(Some("A"))

(***************************************************************************)
(* C11: a successful stop sets the phase to Stopped, the remaining seconds *)
(* to 0, the task and previous_phase to none, leaves pomodoro_count and    *)
(* the config alone, and emits exactly one Stopped event.                  *)
(***************************************************************************)
C11_SuccessfulStop ==
  [][(OpStep /\ Command = "stop" /\ result' = Some("Ok")) =>
       /\ state.phase \in {Working, Breaking, LongBreaking, Paused}
       /\ state'.phase = Stopped
       /\ state'.remaining_seconds = 0
       /\ state'.task_name = None
       /\ state'.previous_phase = None
       /\ state'.pomodoro_count = state.pomodoro_count
       /\ state'.config = state.config
       /\ events' = Push(events, EvStopped)]_vars

\* a paused session of task A with one completed session was stopped
C11_Witness ==
  /\ hPc = "done"
  /\ Command = "stop"
  /\ result = Some("Ok")
  /\ state.pomodoro_count = 1
  /\ Len(events) = 3
  /\ events[1] = WorkStarted(Some("A"))
  /\ events[2] = EvPaused
  /\ events[3] = EvStopped

(***************************************************************************)
(* C12: while the phase is Stopped or Paused no step of the tick loop      *)
(* changes the timer state or emits an event.                              *)
(***************************************************************************)
\* a step of the task that executes run (every handler step moves hPc)
LoopStep == hPc' = hPc

C12_NoTickWhileInactive ==
  [][(LoopStep /\ state.phase \in {Stopped, Paused}) =>
       /\ state' = state
       /\ events' = events]_vars

\* the loop is waiting for its next interval while a break is paused
C12_Witness ==
  /\ runPc = "wait"
  /\ state.phase = Paused
  /\ state.previous_phase = Some(Breaking)
  /\ state.remaining_seconds < state.config.break_minutes * SecondsPerMinute
  /\ LastEvent = EvPaused

(***************************************************************************)
(* C14: every successful start, pause, resume and stop appends exactly one *)
(* event to the channel (WorkStarted, Paused, Resumed, Stopped), in the    *)
(* step that mutates the state; a handler step appends nothing else, so    *)
(* the events are in the order of the mutations, none lost or doubled.     *)
(***************************************************************************)
\* the event that belongs to the command of the request in hand
CommandEvent ==
  CASE Command = "start" -> WorkStarted(unwrap(req).params.task_name)
    [] Command = "pause" -> EvPaused
    [] Command = "resume" -> EvResumed
    [] Command = "stop" -> EvStopped

C14_OneEventPerSuccessfulCommand ==
  [][/\ OpStep /\ Command # "status" /\ result' = Some("Ok") =>
          /\ state' # state
          /\ events' = Push(events, CommandEvent)
     /\ OpStep /\ (Command = "status" \/ result' # Some("Ok")) =>
          events' = events
     /\ hPc' # hPc /\ ~OpStep => events' = events]_vars

\* start, pause and resume have succeeded in this order
C14_Witness ==
  /\ hPc = "done"
  /\ Command = "resume"
  /\ result = Some("Ok")
  /\ events = <<WorkStarted(Some("A")), EvPaused, EvResumed>>

(***************************************************************************)
(* C15: a Status request never changes the timer state and emits no event; *)
(* its response is always a success whose data are the current phase,      *)
(* remaining_seconds, pomodoro_count and task_name.                        *)
(***************************************************************************)
C15_StatusIsReadOnly ==
  [][(InHandler /\ Command = "status" /\ hPc' # hPc) =>
       /\ state' = state
       /\ events' = events
       /\ OpStep => result' = Some("Ok")
       /\ BuildStep =>
            resp' = Some([status |-> "success", message |-> "",
                          data |-> Some(
                            [state |-> Some(state.phase),
                             remaining_seconds |->
                               Some(state.remaining_seconds),
                             pomodoro_count |-> Some(state.pomodoro_count),
                             task_name |-> state.task_name])])]_vars

\* the status of a paused session of task A after one completed session
C15_Witness ==
  /\ hPc = "built"
  /\ Command = "status"
  /\ state.phase = Paused
  /\ state.task_name = Some("A")
  /\ state.pomodoro_count = 1
  /\ unwrap(resp).status = "success"
  /\ unwrap(unwrap(resp).data).task_name = Some("A")

(***************************************************************************)
(* C16: a Start whose overrides, merged with the current config, are out   *)
(* of range (work 1-120, break 1-60, long break 1-60 minutes) is answered  *)
(* with an error naming the field and its range, and never starts the      *)
(* timer: the state is untouched and no WorkStarted is emitted.            *)
(***************************************************************************)
\* the value of an override, or the configured value without one
Effective(override, configured) ==
  IF override # None THEN override[1] ELSE configured

\* the message for the first field of the merged config that is out of range
RangeError ==
  LET p == unwrap(req).params
      w == Effective(p.work_minutes, state.config.work_minutes)
      b == Effective(p.break_minutes, state.config.break_minutes)
      l == Effective(p.long_break_minutes, state.config.long_break_minutes)
  IN IF w \notin 1..120 THEN "work_minutes must be 1-120"
     ELSE IF b \notin 1..60 THEN "break_minutes must be 1-60"
     ELSE IF l \notin 1..60 THEN "long_break_minutes must be 1-60"
     ELSE "Ok"

C16_InvalidStartIsRejected ==
  [][(InHandler /\ Command = "start" /\ RangeError # "Ok" /\ hPc' # hPc) =>
       /\ state' = state
       /\ events' = events
       /\ OpStep => result' = Some(RangeError)
       /\ BuildStep =>
            resp' = Some([status |-> "error", message |-> RangeError,
                          data |-> None])]_vars

\* a paused timer, which a valid Start would restart, refused a Start
\* whose long break is 0 minutes
C16_Witness ==
  /\ hPc = "built"
  /\ Command = "start"
  /\ state.phase = Paused
  /\ resp = Some(error(ErrLongBreakRange))

(***************************************************************************)
(* C17: for Start, Pause, Resume and Stop the handler answers with a       *)
(* success whose data are taken from the state after the mutation exactly  *)
(* when the operation succeeded, and with an error that carries the        *)
(* operation's message and no data exactly when it failed.                 *)
(***************************************************************************)
C17_ResponseFollowsResult ==
  [][(InHandler /\ Command # "status") =>
       /\ OpStep => (result' = Some("Ok") <=> state' # state)
       /\ hPc = "done" => state' = state
       /\ (BuildStep /\ result = Some("Ok")) =>
            resp' = Some([status |-> "success",
                          message |-> SuccessMessage(Command),
                          data |-> Some(
                            [state |-> Some(state.phase),
                             remaining_seconds |->
                               Some(state.remaining_seconds),
                             pomodoro_count |-> Some(state.pomodoro_count),
                             task_name |-> state.task_name])])
       /\ (BuildStep /\ result # Some("Ok")) =>
            resp' = Some([status |-> "error", message |-> unwrap(result),
                          data |-> None])]_vars

\* a pause was answered with the paused state, before the connection saw it
C17_Witness ==
  /\ hPc = "built"
  /\ Command = "pause"
  /\ result = Some("Ok")
  /\ unwrap(resp).status = "success"
  /\ unwrap(unwrap(resp).data).state = Some(Paused)
  /\ unwrap(unwrap(resp).data).task_name = Some("A")

(***************************************************************************)
(* C18 as stated: the handler has released the engine lock when it builds  *)
(* the response.                                                           *)
(***************************************************************************)
C18_ResponseBuiltAfterRelease == [][BuildStep => lock # "handler"]_vars

(***************************************************************************)
(* C18 amended: the handler acquires the engine lock once per request,     *)
(* before the operation, holds it through the operation and the building   *)
(* of the response, and releases it when it returns, before the response   *)
(* is sent.                                                                *)
(***************************************************************************)
C18_LockHeldUntilHandlerReturns ==
  [][/\ (lock # "handler" /\ lock' = "handler") =>
          hPc = "received" /\ hPc' = "locked"
     /\ (OpStep \/ BuildStep) => lock = "handler" /\ lock' = "handler"
     /\ (lock = "handler" /\ lock' # "handler") =>
          hPc = "built" /\ hPc' = "reply" /\ lock' = "free"
     /\ hPc' \in {"reply", "idle", "received"} => lock' # "handler"]_vars

\* the response exists and the handler still holds the lock
C18_Witness ==
  /\ hPc = "built"
  /\ is_some(resp)
  /\ lock = "handler"

Succeeded(o) == o.kind = "response" /\ unwrap(o.response).status # "error"

\* the server answered the attempt with an error-status response
Rejected(o) == o.kind = "response" /\ unwrap(o.response).status = "error"

Returned == cPc = "returned"

(***************************************************************************)
(* C19: one client call makes at most 3 attempts, one after another: the   *)
(* k-th attempt is made only after k-1 failed ones.  The call returns Ok   *)
(* with the response of the first attempt that succeeds, which stays its   *)
(* last attempt, and returns Err only after 3 failed attempts.             *)
(***************************************************************************)
C19_AtMostThreeSequentialAttempts ==
  /\ Len(tries) <= 3
  /\ cPc = "attempt" =>
       /\ Len(tries) = attempt - 1
       /\ \A i \in 1..Len(tries) : ~Succeeded(tries[i])
  /\ cPc = "sleep" =>
       /\ Len(tries) = attempt
       /\ \A i \in 1..Len(tries) : ~Succeeded(tries[i])
  /\ (Returned /\ unwrap(cresult).ok) =>
       /\ Len(tries) \in 1..3
       /\ \A i \in 1..(Len(tries) - 1) : ~Succeeded(tries[i])
       /\ Succeeded(tries[Len(tries)])
       /\ unwrap(cresult).response = tries[Len(tries)].response
  /\ (Returned /\ ~unwrap(cresult).ok) =>
       /\ Len(tries) = 3
       /\ \A i \in 1..3 : ~Succeeded(tries[i])

\* the call returned the response of its second attempt, after the first
\* found no daemon to connect to
C19_Witness ==
  /\ Returned
  /\ unwrap(cresult).ok
  /\ Len(tries) = 2
  /\ tries[1].kind = "connect_failed"
  /\ unwrap(creq).command = "pause"
  /\ unwrap(unwrap(cresult).response).message = "timer paused"

(***************************************************************************)
(* C20: an error-status response is never returned as Ok.  The attempt     *)
(* counts as failed and is retried like a transport failure, up to the     *)
(* same cap: a call whose attempts are all rejected by the server has sent *)
(* the request 3 times when it returns, and returns Err with the server's  *)
(* message.                                                                *)
(***************************************************************************)
C20_ErrorResponseIsRetried ==
  /\ (Returned /\ unwrap(cresult).ok) =>
       unwrap(unwrap(cresult).response).status # "error"
  /\ \A i \in 1..Len(tries) :
       Rejected(tries[i]) =>
         \/ i = 3 /\ Returned /\ ~unwrap(cresult).ok
         \/ i < 3 /\ cPc = "sleep" /\ attempt = i
         \/ i < 3 /\ attempt > i
  /\ (Returned /\ Rejected(tries[Len(tries)])) =>
       /\ Len(tries) = 3
       /\ unwrap(cresult).error = Some(unwrap(tries[3].response).message)

\* a pause was rejected three times by a daemon whose timer is not running
C20_Witness ==
  /\ Returned
  /\ unwrap(creq).command = "pause"
  /\ Len(tries) = 3
  /\ \A i \in 1..3 : Rejected(tries[i])
  /\ unwrap(cresult) = Err(ErrNotRunning)

(***************************************************************************)
(* C21: after failed attempt 1 the client waits 500 ms and after failed    *)
(* attempt 2 it waits 1000 ms before the next attempt; it does not wait    *)
(* after the last failed attempt, so a call whose three attempts all fail  *)
(* has slept 1500 ms when it returns its error.                            *)
(***************************************************************************)
\* milliseconds slept once k waits are over
SleptAfter(k) == CASE k = 0 -> 0 [] k = 1 -> 500 [] k = 2 -> 1500

C21_LinearBackoff ==
  /\ cPc \in {"attempt", "sleep"} => slept = SleptAfter(attempt - 1)
  /\ Returned => slept = SleptAfter(Len(tries) - 1)
  /\ (Returned /\ ~unwrap(cresult).ok) => slept = 1500

\* no daemon listens on the socket path: three refused connections
C21_Witness ==
  /\ Returned
  /\ Len(tries) = 3
  /\ \A i \in 1..3 : tries[i].kind = "connect_failed"
  /\ unwrap(cresult) = Err(TransportError("connect_failed"))
  /\ slept = 1500

(***************************************************************************)
(* C22: when all attempts of a call fail, the error returned is the error  *)
(* of the last attempt; when the last attempt was answered with an         *)
(* error-status response, the error text is the server's message.          *)
(***************************************************************************)
\* the error text of a failed attempt
ErrorOf(o) ==
  IF o.kind = "response" THEN unwrap(o.response).message
  ELSE TransportError(o.kind)

C22_LastErrorIsReturned ==
  (Returned /\ ~unwrap(cresult).ok) =>
     /\ unwrap(cresult).error = Some(ErrorOf(tries[Len(tries)]))
     /\ Rejected(tries[Len(tries)]) =>
          unwrap(cresult).error =
            Some(unwrap(tries[Len(tries)].response).message)

\* the first attempt found no daemon, the last one was rejected by it
C22_Witness ==
  /\ Returned
  /\ unwrap(creq).command = "resume"
  /\ tries[1].kind = "connect_failed"
  /\ tries[2].kind = "read_timeout"
  /\ Rejected(tries[3])
  /\ unwrap(cresult) = Err(ErrNotPaused)

(***************************************************************************)
(* Calls of the pure functions.                                            *)
(***************************************************************************)
Called(f) == is_some(call) /\ unwrap(call).fn = f

Arg == unwrap(call).arg

(***************************************************************************)
(* C25: tick decrements remaining_seconds by 1 when it is greater than 0   *)
(* and returns true iff remaining_seconds is 0 afterwards; called at 0 it  *)
(* leaves remaining_seconds at 0 and returns true, however often it is     *)
(* called; the counter never leaves the range of a u32.                    *)
(***************************************************************************)
C25_TickStopsAtZero ==
  Called("tick") =>
    LET before == Arg.remaining_seconds
        after == unwrap(ret).state.remaining_seconds
    IN /\ before > 0 => after = before - 1
       /\ before = 0 => after = 0 /\ unwrap(ret).completed
       /\ unwrap(ret).completed <=> after = 0
       /\ after >= 0
       /\ unwrap(ret).state = [Arg EXCEPT !.remaining_seconds = after]

\* the last call of a row, made at 0 like the one before it
C25_Witness ==
  /\ Called("tick")
  /\ unwrap(call).n = MaxCalls
  /\ unwrap(call).n >= 3
  /\ Arg.remaining_seconds = 0
  /\ unwrap(ret).completed
  /\ unwrap(ret).state.remaining_seconds = 0

(***************************************************************************)
(* C26: validate returns Ok iff work_minutes is in 1..120, break_minutes   *)
(* in 1..60 and long_break_minutes in 1..60; otherwise it returns the      *)
(* error of the first failing field in the order work, break, long break;  *)
(* it changes no field of the config.                                      *)
(***************************************************************************)
C26_ValidateRanges ==
  Called("validate") =>
    LET w == Arg.work_minutes \in 1..120
        b == Arg.break_minutes \in 1..60
        l == Arg.long_break_minutes \in 1..60
        res == unwrap(ret).res
    IN /\ res = "Ok" <=> (w /\ b /\ l)
       /\ ~w => res = "work_minutes must be 1-120"
       /\ (w /\ ~b) => res = "break_minutes must be 1-60"
       /\ (w /\ b /\ ~l) => res = "long_break_minutes must be 1-60"
       /\ unwrap(ret).config = Arg

\* work and break time are both out of range: the work time is reported
C26_Witness ==
  /\ Called("validate")
  /\ Arg.work_minutes = 121
  /\ Arg.break_minutes = 0
  /\ unwrap(ret).res = ErrWorkRange
  /\ unwrap(ret).config.work_minutes = 121

(***************************************************************************)
(* C27 as stated: serializing any TimerState, TimerEvent, IpcRequest or    *)
(* IpcResponse and deserializing the result gives back the value.          *)
(***************************************************************************)
C27_EveryTypeRoundTrips == Called("round_trip") => ret = Some(Arg.value)

(***************************************************************************)
(* C27 amended: serializing any TimerState, IpcRequest or IpcResponse and  *)
(* deserializing the result gives back the value; a TimerEvent has no      *)
(* wire form.                                                              *)
(***************************************************************************)
C27_SerializableTypesRoundTrip ==
  Called("round_trip") =>
    IF Arg.kind \in {"TimerState", "IpcRequest", "IpcResponse"}
    THEN ret = Some(Arg.value)
    ELSE Arg.kind = "TimerEvent" /\ ret = None

\* a Start that sets one of the six parameters came back as it was sent
C27_Witness ==
  /\ Called("round_trip")
  /\ Arg.kind = "IpcRequest"
  /\ Arg.value.command = "start"
  /\ Arg.value.params.break_minutes = Some(61)
  /\ Arg.value.params.task_name = None
  /\ ret = Some(Arg.value)

(***************************************************************************)
(* Steps of the serving loop.                                              *)
(***************************************************************************)
\* a connection is accepted
AcceptStep == conn = None /\ conn' # None

\* the cycle of the accepted connection ends
CycleEnds == conn # None /\ conn' = None

\* number of connections accepted so far
Accepted == nconn - Len(backlog)

\* what the accepted connection carries cannot be read as a request
Unreadable == receive_request(unwrap(conn).bytes) = None

(***************************************************************************)
(* C23: the server handles one connection at a time.  A connection is      *)
(* accepted only when no cycle is under way, and connections are accepted  *)
(* in the order they were made; the cycle of a connection whose request    *)
(* decodes ends with exactly one response written to it; the request the   *)
(* engine is called with is the one of the connection accepted last, so    *)
(* requests are applied in accept order.                                   *)
(***************************************************************************)
C23_OneConnectionAtATime ==
  [][/\ AcceptStep =>
          /\ hPc = "idle" /\ req = None /\ resp = None
          /\ unwrap(conn').id = Accepted + 1
     /\ conn' # conn => AcceptStep \/ CycleEnds
     /\ (CycleEnds /\ ~Unreadable) =>
          /\ hPc = "reply" /\ is_some(resp)
          /\ written' = Append(written, unwrap(conn).id)
          /\ \A i \in 1..Len(written) : written[i] < unwrap(conn).id
     /\ ~(CycleEnds /\ ~Unreadable) => written' = written
     /\ OpStep =>
          /\ is_some(conn)
          /\ unwrap(conn).id = Accepted
          /\ req = receive_request(unwrap(conn).bytes)]_vars

\* the Start of the first client and the Stop of the second were applied
\* in this order and each was answered
C23_Witness ==
  /\ hPc = "idle"
  /\ written = <<1, 2>>
  /\ Len(events) = 2
  /\ events[1] = WorkStarted(Some("A"))
  /\ events[2] = EvStopped

(***************************************************************************)
(* C24: a connection closed without a byte, or whose payload does not      *)
(* parse as a request, makes receive_request fail; the connection never    *)
(* reaches the handler and gets no response, the timer state, the event    *)
(* channel, the engine lock and the tick loop are as they were, and the    *)
(* serving loop is back at accept for the connections that follow.         *)
(***************************************************************************)
C24_UnreadableRequestIsDropped ==
  [][(hPc = "accepted" /\ Unreadable) =>
       /\ hPc' \in {"accepted", "idle"}
       /\ hPc' = "idle" =>
            /\ conn' = None /\ req' = None
            /\ UNCHANGED <<state, events, lock, runPc, backlog, written>>]_vars

\* the first client closed at once, the second sent bytes that are no
\* JSON; the Start of the third was served and the loop has ticked since
C24_Witness ==
  /\ hPc = "idle"
  /\ nconn = 3
  /\ written = <<3>>
  /\ state.phase = Working
  /\ runPc = "wait"
  /\ LastEvent = Tick(state.remaining_seconds)

(***************************************************************************)
(* C28: IpcServer::new leaves a socket at the path, whatever was there     *)
(* before, so the socket path exists for as long as the server value       *)
(* lives.                                                                  *)
(***************************************************************************)
C28_SocketPathLivesWithServer ==
  \A i \in Servers :
    srv[i] # None => fs[unwrap(srv[i])].kind = "socket"

(***************************************************************************)
(* C29: with the receiver alive, an interval in an active phase appends    *)
(* exactly one Tick, with the seconds left after the decrement; the        *)
(* completion is handled in that tick iff they are 0, and its events       *)
(* follow the Tick, so that every WorkCompleted and every BreakCompleted   *)
(* in the channel comes right after Tick{0}.                               *)
(***************************************************************************)
\* an interval of the loop that finds an active phase
ActiveInterval == runPc = "wait" /\ state' # state

CompletionFollowsLastTick(ch) ==
  \A i \in 2..Len(ch) :
     ch[i].type \in {"WorkCompleted", "BreakCompleted"} => ch[i - 1] = Tick(0)

C29_TickThenCompletion ==
  [][/\ (ActiveInterval /\ rx_open) =>
          /\ is_running(state)
          /\ state'.remaining_seconds = state.remaining_seconds - 1
          /\ events' = Push(events, Tick(state'.remaining_seconds))
          /\ (runPc' = "complete") = (state'.remaining_seconds = 0)
          /\ runPc' \in {"complete", "wait"}
     /\ (CompleteStep /\ events' # events) =>
          /\ Len(events) > 0
          /\ LastEvent = Tick(0)
          /\ \E e \in {WorkCompleted(state'.pomodoro_count, state.task_name),
                       BreakCompleted(state.phase = LongBreaking)} :
               \/ events' = Push(events, e)
               \/ \E f \in {BreakStarted(state'.phase = LongBreaking),
                            WorkStarted(state.task_name)} :
                    events' = Push(Push(events, e), f)
     /\ CompletionFollowsLastTick(events)
     /\ CompletionFollowsLastTick(events')]_vars

\* the last second of a session has been counted and the break entered in
\* the same tick
C29_Witness ==
  /\ events = <<Tick(0), WorkCompleted(1, Some("A")), BreakStarted(FALSE)>>
  /\ state.phase = Breaking
  /\ state.remaining_seconds
       = state.config.break_minutes * SecondsPerMinute
  /\ rx_open

(***************************************************************************)
(* C30: remaining_seconds is written only by the tick loop, by a           *)
(* successful start and by a successful stop: a successful pause or        *)
(* resume, a Status request and every rejected command leave it as it was. *)
(***************************************************************************)
C30_WritersOfRemainingSeconds ==
  [][state'.remaining_seconds # state.remaining_seconds =>
       \/ TickStep
       \/ /\ OpStep
          /\ Command \in {"start", "stop"}
          /\ result' = Some("Ok")]_vars

C32_PreviousPhaseIffPaused ==
  /\ is_some(state.previous_phase) <=> state.phase = Paused
  /\ is_some(state.previous_phase) => is_active(unwrap(state.previous_phase))

\* a break has been paused
C32_Witness ==
  /\ state.phase = Paused
  /\ state.previous_phase = Some(Breaking)

(***************************************************************************)
(* C33: whenever the engine lock is free, a phase other than Stopped has   *)
(* between 1 second and the configured length of the counted phase left.   *)
(* Every tick takes exactly one second off, the completion is handled      *)
(* exactly when 0 is reached, and pause and resume leave the seconds and   *)
(* the counted phase alone, so a phase entered with N seconds completes    *)
(* at its N-th tick.                                                       *)
(***************************************************************************)
\* the configured length in seconds of phase ph
PhaseLength(s, ph) ==
  SecondsPerMinute *
    (IF ph = Working THEN s.config.work_minutes
     ELSE IF ph = Breaking THEN s.config.break_minutes
     ELSE s.config.long_break_minutes)

Counting(s, l) ==
  (l = "free" /\ s.phase # Stopped) =>
     /\ s.remaining_seconds >= 1
     /\ s.remaining_seconds <= PhaseLength(s, CountedPhase(s))

C34_ErrorLeavesStateUnchanged ==
  [][(OpStep /\ result' # Some("Ok")) => state' = state]_vars

(***************************************************************************)
(* C35: in the event channel every Resumed comes right after a Paused,     *)
(* and what comes right after a Paused is Resumed, Stopped or WorkStarted: *)
(* never a Tick or an event of a completion.                               *)
(***************************************************************************)
PausedNeighbours(ch) ==
  \A i \in 2..Len(ch) :
     /\ ch[i] = EvResumed => ch[i - 1] = EvPaused
     /\ ch[i - 1] = EvPaused =>
          ch[i].type \in {"Resumed", "Stopped", "WorkStarted"}

C35_PausedThenResumedStoppedOrStarted ==
  [][/\ PausedNeighbours(events)
     /\ PausedNeighbours(events')
     /\ (events' # events /\ events'[Len(events')] = EvResumed) =>
          /\ Len(events) > 0
          /\ LastEvent = EvPaused
          /\ events' = Push(events, EvResumed)
     /\ (events' # events /\ Len(events) > 0 /\ LastEvent = EvPaused) =>
          \E e \in {EvResumed, EvStopped, WorkStarted(state'.task_name)} :
             events' = Push(events, e)]_vars

\* a session was paused and resumed, and counts again
C35_Witness ==
  /\ Len(events) = MaxEvents
  /\ events[MaxEvents - 2] = EvPaused
  /\ events[MaxEvents - 1] = EvResumed
  /\ events[MaxEvents].type = "Tick"

(***************************************************************************)
(* C36: every BreakCompleted{b} closes the break that the last             *)
(* BreakStarted{b} opened, with no BreakStarted, WorkStarted or Stopped in *)
(* between, also across pause and resume; every BreakStarted comes right   *)
(* after a WorkCompleted.  The break that is open is the one the state     *)
(* counts: it is opened only by the step that appends BreakStarted of its  *)
(* kind, it stays the same as long as none of the three events is          *)
(* appended, and BreakCompleted is appended only to close it.              *)
(***************************************************************************)
InBreak(s) == CountedPhase(s) \in {Breaking, LongBreaking}
IsLong(s) == CountedPhase(s) = LongBreaking

\* the step appends nothing, or one event that marks no phase
AppendsNoMark ==
  \/ events' = events
  \/ \E e \in {EvPaused, EvResumed, Tick(state'.remaining_seconds)} :
        events' = Push(events, e)

C36_BreakCompletedClosesBreakStarted ==
  [][/\ (InBreak(state') /\ (~InBreak(state) \/ CompleteStep)) =>
          /\ CompleteStep
          /\ state.phase = Working
          /\ events'[Len(events')] = BreakStarted(IsLong(state'))
     /\ (InBreak(state) /\ InBreak(state') /\ ~CompleteStep) =>
          /\ IsLong(state') = IsLong(state)
          /\ AppendsNoMark
     /\ (CompleteStep /\ InBreak(state)) =>
          \/ events' = Push(events, BreakCompleted(IsLong(state)))
          \/ events' = Push(Push(events, BreakCompleted(IsLong(state))),
                            WorkStarted(state.task_name))
     /\ (events' # events /\ ~(CompleteStep /\ InBreak(state))) =>
          LET n == Len(events')
          IN \/ /\ events' = Push(events, events'[n])
                /\ events'[n].type # "BreakCompleted"
             \/ /\ n >= 2
                /\ events' = Push(Push(events, events'[n - 1]), events'[n])
                /\ events'[n - 1].type # "BreakCompleted"
                /\ events'[n].type # "BreakCompleted"
     /\ BreakStartedFollowsWorkCompleted(events')]_vars

\* a short break has been closed and the next session begun
C36_Witness ==
  /\ Len(events) = MaxEvents
  /\ events[MaxEvents - 1] = BreakCompleted(FALSE)
  /\ events[MaxEvents].type = "WorkStarted"
  /\ state.config.auto_cycle
  /\ state.phase = Working

(***************************************************************************)
(* C37: without auto_cycle, a session that the running loop counts is      *)
(* followed by one break and then by Stopped, with pomodoro_count one      *)
(* higher than during the session: the loop's steps change the phase only  *)
(* from Working to a break and from a break to Stopped, the first adding   *)
(* one to the count and the second nothing, and they do get there.  A      *)
(* Stopped timer stays Stopped until a start succeeds.                     *)
(***************************************************************************)
C37_OneSessionOneBreakThenStopped ==
  /\ [][/\ (~state.config.auto_cycle /\ LoopStep /\ runPc # "none"
            /\ state'.phase # state.phase) =>
             /\ CompleteStep
             /\ \/ /\ state.phase = Working
                   /\ state'.phase \in {Breaking, LongBreaking}
                   /\ state'.pomodoro_count = state.pomodoro_count + 1
                \/ /\ state.phase \in {Breaking, LongBreaking}
                   /\ state'.phase = Stopped
                   /\ state'.pomodoro_count = state.pomodoro_count
        /\ (LoopStep /\ runPc # "none" /\ state'.phase = state.phase) =>
             state'.pomodoro_count = state.pomodoro_count
        /\ (state.phase = Stopped /\ state'.phase # Stopped) =>
             OpStep /\ Command = "start" /\ result' = Some("Ok")]_vars
  /\ \A n \in 0..(MaxPomodoros - 1) :
        (/\ runPc = "wait"
         /\ ~state.config.auto_cycle
         /\ state.phase = Working
         /\ state.pomodoro_count = n)
          ~> (state.phase = Stopped /\ state.pomodoro_count = n + 1)

\* the loop has counted the first session and its break to the end
C37_Witness ==
  /\ runPc = "wait"
  /\ ~state.config.auto_cycle
  /\ state.phase = Stopped
  /\ state.pomodoro_count = 1
  /\ Len(events) > 0
  /\ LastEvent = BreakCompleted(FALSE)

(***************************************************************************)
(* C38: with auto_cycle, after a successful start the phase does not       *)
(* become Stopped unless a stop command succeeds (work sessions complete   *)
(* again and again while the loop ticks, and the long breaks are those     *)
(* after every fourth session).                                            *)
(***************************************************************************)
C38_OnlySuccessfulStopStops ==
  [][(/\ state.config.auto_cycle
      /\ Len(events) > 0
      /\ LastEvent.type = "WorkStarted"
      /\ state.phase = Working
      /\ state'.phase = Stopped) =>
       OpStep /\ Command = "stop" /\ result' = Some("Ok")]_vars

(***************************************************************************)
(* C39: a Stopped timer has no seconds left and no task, however it got    *)
(* there: by construction, by a stop command or by a break that completed  *)
(* without auto_cycle.                                                     *)
(***************************************************************************)
C39_StoppedIsReset ==
  state.phase = Stopped =>
     /\ state.remaining_seconds = 0
     /\ state.task_name = None

\* a break after the first session of a task was stopped by a command
C39_Witness ==
  /\ state.phase = Stopped
  /\ state.pomodoro_count = 1
  /\ Len(events) > 0
  /\ LastEvent = EvStopped
  /\ hPc = "done"
  /\ unwrap(req).command = "stop"

=============================================================================
